---- MODULE Spec2Model ----
(***************************************************************************)
(* The IaC drift detector of mcp_tools/iac_drift_detector:                  *)
(* compare_attributes and compare_states (core_logic/drift_engine.py),     *)
(* suggest_remediation (core_logic/remediation.py), the Terraform state    *)
(* parser (parsers/terraform_parser.py) and the command line (cli.py),     *)
(* over the data model of models.py; and the context store of              *)
(* mcp_server/main.py.  A specification draws the arguments of a call in   *)
(* its initial state and an action performs the call and stores what it    *)
(* returned or raised.                                                     *)
(***************************************************************************)
EXTENDS Integers, Sequences, FiniteSets, TLC

VARIABLES
    op,                         \* the function that is called
    pc,                         \* "ready" before the call, "done" after it
    hash_order,                 \* the order in which this process iterates a set of str keys
    iac_resources,              \* compare_states: the desired list
    actual_resources,           \* compare_states: the actual list
    ignored_attributes_config,  \* compare_states / compare_attributes: None or a dict
    drift_results,              \* compare_states: the returned list
    iac_attrs,                  \* compare_attributes: desired attribute map
    actual_attrs,               \* compare_attributes: actual attribute map
    resource_type,              \* compare_attributes: the type
    drifts,                     \* compare_attributes: the returned list
    drift_info,                 \* suggest_remediation: the DriftInfo
    iac_tool,                   \* suggest_remediation: the tool name
    suggestions,                \* suggest_remediation: the returned list
    raised,                     \* the exception that left the call, or "none"
    default_ignored_attributes, \* drift_engine: the module's DEFAULT_IGNORED_ATTRIBUTES dict
    tf_state_file,              \* cli / parser: the path argument, or None
    file,                       \* cli / parser: what the path names on disk
    eager_annotations,          \* cli: the interpreter evaluates annotations at definition
    parsed_resources,           \* parser: the returned list
    exit_code,                  \* cli: the exit status of the process, -1 while it runs
    compared,                   \* cli: compare_states was called
    CONTEXT_STORE,              \* mcp_server: the module's dict of contexts
    request,                    \* mcp_server: the request that was handled last
    response,                   \* mcp_server: the response to it
    in_flight,                  \* mcp_server: how often each request is received and not yet handled
    served                      \* mcp_server: the handled requests and their responses, in order

cli_vars == <<tf_state_file, file, eager_annotations, parsed_resources, exit_code, compared>>

store_vars == <<CONTEXT_STORE, request, response, in_flight, served>>

vars == <<op, pc, hash_order, iac_resources, actual_resources, ignored_attributes_config,
          drift_results, iac_attrs, actual_attrs, resource_type, drifts,
          drift_info, iac_tool, suggestions, raised, default_ignored_attributes,
          cli_vars, store_vars>>

(***************************************************************************)
(* Python values.  Every value carries its type, so that "0" and 0, or     *)
(* None and an empty dict, are different values that can be compared.      *)
(***************************************************************************)
None == [t |-> "none"]
StrVal(s) == [t |-> "str", v |-> s]
IntVal(n) == [t |-> "int", v |-> n]
BoolVal(b) == [t |-> "bool", v |-> b]
DictVal(f) == [t |-> "dict", v |-> f]
ListVal(xs) == [t |-> "list", v |-> xs]

isinstance_dict(x) == x.t = "dict"

\* int(x) of a number; bool is a subclass of int
IntOf(x) == IF x.t = "bool" THEN (IF x.v THEN 1 ELSE 0) ELSE x.v

\* Python's ==: numbers compare by value (True == 1), other values of
\* different types are unequal (no coercion between str and int); dicts are
\* equal when they hold the same keys with equal values, lists when they hold
\* equal items in the same order.
RECURSIVE PyEq(_, _)
PyEq(a, b) ==
    CASE a.t \in {"int", "bool"} /\ b.t \in {"int", "bool"} -> IntOf(a) = IntOf(b)
      [] a.t # b.t -> FALSE
      [] a.t = "dict" ->
             /\ DOMAIN a.v = DOMAIN b.v
             /\ \A k \in DOMAIN a.v : PyEq(a.v[k], b.v[k])
      [] a.t = "list" ->
             /\ Len(a.v) = Len(b.v)
             /\ \A i \in 1..Len(a.v) : PyEq(a.v[i], b.v[i])
      [] OTHER -> a = b

PyNe(a, b) == ~PyEq(a, b)

\* bool(x) for the values an `if x` or `x or y` of the source tests
Truthy(x) ==
    CASE x.t = "none" -> FALSE
      [] x.t = "str"  -> x.v # ""
      [] x.t = "int"  -> x.v # 0
      [] x.t = "bool" -> x.v
      [] x.t = "dict" -> DOMAIN x.v # {}
      [] x.t = "list" -> x.v # <<>>
      [] OTHER        -> TRUE

\* d.get(key) and d.get(key, default) on the mapping d
GetOr(d, key, default) == IF key \in DOMAIN d THEN d[key] ELSE default

Get(d, key) == GetOr(d, key, None)

\* s.startswith(prefix)
startswith(s, prefix) ==
    Len(s) >= Len(prefix) /\ SubSeq(s, 1, Len(prefix)) = prefix

\* sub in s, for two strings
Contains(s, sub) ==
    \E i \in 1..(Len(s) - Len(sub) + 1) : SubSeq(s, i, i + Len(sub) - 1) = sub

\* x in xs, for a list xs
InList(x, xs) == \E i \in 1..Len(xs) : xs[i] = x

Range(s) == {s[i] : i \in 1..Len(s)}

(***************************************************************************)
(* models.py                                                               *)
(***************************************************************************)
ParsedResource(id, type, name, provider_name, module, attributes) ==
    [id |-> id, type |-> type, name |-> name, provider_name |-> provider_name,
     module |-> module, attributes |-> attributes]

MISSING_IN_ACTUAL == "missing_in_actual"
UNMANAGED_IN_ACTUAL == "unmanaged_in_actual"
MODIFIED == "modified"

DriftType == {MISSING_IN_ACTUAL, UNMANAGED_IN_ACTUAL, MODIFIED}

AttributeDrift(attribute_name, iac_value, actual_value) ==
    [attribute_name |-> attribute_name, iac_value |-> iac_value,
     actual_value |-> actual_value]

DriftInfo(drift_type, rtype, rname, rid, ires, ares, attribute_drifts, message) ==
    [drift_type |-> drift_type, resource_type |-> rtype, resource_name |-> rname,
     resource_id |-> rid, iac_resource |-> ires,
     actual_resource |-> ares, attribute_drifts |-> attribute_drifts,
     message |-> message]

(***************************************************************************)
(* drift_engine.py: compare_attributes                                     *)
(***************************************************************************)
DEFAULT_IGNORED_ATTRIBUTES ==
    DictVal([rt \in {"aws_instance", "aws_s3_bucket"} |->
        IF rt = "aws_instance"
        THEN <<"arn", "private_dns", "public_dns", "public_ip", "ipv6_addresses",
               "tags_all", "ebs_block_device", "root_block_device", "timeouts">>
        ELSE <<"arn", "bucket_domain_name", "bucket_regional_domain_name",
               "tags_all", "timeouts">>])

\* (ignored_attributes_config or DEFAULT_IGNORED_ATTRIBUTES).get(resource_type, [])
current_ignored_attributes(rtype, config) ==
    GetOr((IF Truthy(config) THEN config ELSE default_ignored_attributes).v, rtype, <<>>)

\* as IsIgnoredKey, but only with the test against the list
IsIgnoredKey_ListOnly(key, ignored) == InList(key, ignored)

\* as IsIgnoredKey, but only with the underscore test
IsIgnoredKey_UnderscoreOnly(key, ignored) == startswith(key, "_")

\* the `continue` of the loop: key in current_ignored_attributes or key.startswith("_")
IsIgnoredKey(key, ignored) == InList(key, ignored) \/ startswith(key, "_")

\* Insertion order of the keys of the dicts that are given to the engine
\* (a dict iterates in insertion order).
InsertionOrder == <<"env", "owner", "extra", "Name", "Environment", "enabled">>

\* list(d.keys()) for a dict d
DictKeys(d) == SelectSeq(InsertionOrder, LAMBDA k : k \in DOMAIN d)

\* as TagLoop, but only the IaC tags that the actual tags hold are compared
RECURSIVE TagLoop_PresentOnly(_, _, _)
TagLoop_PresentOnly(tag_keys, iac_value, actual_value) ==
    IF tag_keys = <<>> THEN <<>>
    ELSE LET tag_key == Head(tag_keys)
             tag_iac_val == iac_value.v[tag_key]
             tag_actual_val == Get(actual_value.v, tag_key)
             rest == TagLoop_PresentOnly(Tail(tag_keys), iac_value, actual_value)
         IN  IF tag_key \in DOMAIN actual_value.v /\ PyNe(tag_actual_val, tag_iac_val)
             THEN <<AttributeDrift("tags." \o tag_key, tag_iac_val, tag_actual_val)>> \o rest
             ELSE rest

\* the loop over iac_value.items(): one tags.<k> drift per differing IaC tag
RECURSIVE TagLoop(_, _, _)
TagLoop(tag_keys, iac_value, actual_value) ==
    IF tag_keys = <<>> THEN <<>>
    ELSE LET tag_key == Head(tag_keys)
             tag_iac_val == iac_value.v[tag_key]
             tag_actual_val == Get(actual_value.v, tag_key)
             rest == TagLoop(Tail(tag_keys), iac_value, actual_value)
         IN  IF PyNe(tag_actual_val, tag_iac_val)
             THEN <<AttributeDrift("tags." \o tag_key, tag_iac_val, tag_actual_val)>> \o rest
             ELSE rest

\* as IsTagsCase, for an engine without the tags branch
IsTagsCase_Never(key, iac_value, actual_value) == FALSE

\* the condition of the tags branch
IsTagsCase(key, iac_value, actual_value) ==
    key = "tags" /\ isinstance_dict(iac_value) /\ isinstance_dict(actual_value)

\* as KeyDrifts, but a value that is false in a condition counts as no value
KeyDrifts_FalsyAsAbsent(key, iattrs, aattrs, ignored) ==
    IF IsIgnoredKey(key, ignored) THEN <<>>
    ELSE LET iac_value == Get(iattrs, key)
             actual_value == Get(aattrs, key)
         IN  IF IsTagsCase(key, iac_value, actual_value)
             THEN TagLoop(DictKeys(iac_value.v), iac_value, actual_value)
             ELSE IF (Truthy(iac_value) \/ Truthy(actual_value))
                         /\ PyNe(iac_value, actual_value)
                  THEN <<AttributeDrift(key, iac_value, actual_value)>>
                  ELSE <<>>

\* as KeyDrifts, but desired tags are compared only against an actual tags map
KeyDrifts_NoContainerDrift(key, iattrs, aattrs, ignored) ==
    IF IsIgnoredKey(key, ignored) THEN <<>>
    ELSE LET iac_value == Get(iattrs, key)
             actual_value == Get(aattrs, key)
         IN  IF IsTagsCase(key, iac_value, actual_value)
             THEN TagLoop(DictKeys(iac_value.v), iac_value, actual_value)
             ELSE IF key = "tags" /\ isinstance_dict(iac_value) THEN <<>>
             ELSE IF PyNe(iac_value, actual_value)
                  THEN <<AttributeDrift(key, iac_value, actual_value)>>
                  ELSE <<>>

\* as KeyDrifts, but a key that the IaC attributes lack is not compared
KeyDrifts_IacKeysOnly(key, iattrs, aattrs, ignored) ==
    IF IsIgnoredKey(key, ignored) \/ key \notin DOMAIN iattrs THEN <<>>
    ELSE LET iac_value == Get(iattrs, key)
             actual_value == Get(aattrs, key)
         IN  IF IsTagsCase(key, iac_value, actual_value)
             THEN TagLoop(DictKeys(iac_value.v), iac_value, actual_value)
             ELSE IF PyNe(iac_value, actual_value)
                  THEN <<AttributeDrift(key, iac_value, actual_value)>>
                  ELSE <<>>

\* the body of `for key in all_keys` for one key: the drifts it appends
KeyDrifts(key, iattrs, aattrs, ignored) ==
    IF IsIgnoredKey(key, ignored) THEN <<>>
    ELSE LET iac_value == Get(iattrs, key)
             actual_value == Get(aattrs, key)
         IN  IF IsTagsCase(key, iac_value, actual_value)
             THEN TagLoop(DictKeys(iac_value.v), iac_value, actual_value)
             ELSE IF PyNe(iac_value, actual_value)
                  THEN <<AttributeDrift(key, iac_value, actual_value)>>
                  ELSE <<>>

RECURSIVE KeyLoop(_, _, _, _)
KeyLoop(keys, iattrs, aattrs, ignored) ==
    IF keys = <<>> THEN <<>>
    ELSE KeyDrifts(Head(keys), iattrs, aattrs, ignored)
             \o KeyLoop(Tail(keys), iattrs, aattrs, ignored)

\* set(iac_attrs.keys()) | set(actual_attrs.keys()), in the order the loop visits it
all_keys(iattrs, aattrs) ==
    SelectSeq(hash_order, LAMBDA k : k \in (DOMAIN iattrs \cup DOMAIN aattrs))

compare_attributes(iattrs, aattrs, rtype, config) ==
    KeyLoop(all_keys(iattrs, aattrs), iattrs, aattrs,
            current_ignored_attributes(rtype, config))

(***************************************************************************)
(* drift_engine.py: compare_states                                         *)
(***************************************************************************)
\* as DictPut, but a key that is present keeps its value
DictPut_KeepFirst(items, key, value) ==
    IF \E i \in 1..Len(items) : items[i].key = key
    THEN items
    ELSE Append(items, [key |-> key, value |-> value])

\* A dict as the list of its items: a key stays where it was first inserted
\* and holds the value that was inserted last.
DictPut(items, key, value) ==
    IF \E i \in 1..Len(items) : items[i].key = key
    THEN [i \in 1..Len(items) |->
             IF items[i].key = key THEN [key |-> key, value |-> value] ELSE items[i]]
    ELSE Append(items, [key |-> key, value |-> value])

DictHas(items, key) == \E i \in 1..Len(items) : items[i].key = key

\* items.get(key) for a key that is present
DictAt(items, key) == items[CHOOSE i \in 1..Len(items) : items[i].key = key].value

\* as IndexById, but filtering with `res.id is not None`
RECURSIVE IndexById_NotNone(_)
IndexById_NotNone(resources) ==
    IF resources = <<>> THEN <<>>
    ELSE LET res == resources[Len(resources)]
             front == IndexById_NotNone(SubSeq(resources, 1, Len(resources) - 1))
         IN  IF res.id # None THEN DictPut(front, res.id, res) ELSE front

\* {res.id: res for res in resources if res.id}
RECURSIVE IndexById(_)
IndexById(resources) ==
    IF resources = <<>> THEN <<>>
    ELSE LET res == resources[Len(resources)]
             front == IndexById(SubSeq(resources, 1, Len(resources) - 1))
         IN  IF Truthy(res.id) THEN DictPut(front, res.id, res) ELSE front

TypeMismatchMessage(iac_res, actual_res, iac_res_id) ==
    "Type mismatch: IaC type '" \o iac_res.type \o "', Actual type '" \o actual_res.type
        \o "' for ID '" \o iac_res_id.v \o "'."

ModifiedMessage(iac_res, iac_res_id) ==
    "Resource '" \o iac_res.type \o "." \o iac_res.name \o "' (ID: " \o iac_res_id.v
        \o ") has modified attributes."

MissingMessage(iac_res, iac_res_id) ==
    "Resource '" \o iac_res.type \o "." \o iac_res.name \o "' (Expected ID: "
        \o iac_res_id.v \o ") defined in IaC is missing in actual state."

UnmanagedMessage(actual_res, actual_res_id) ==
    "Resource ID '" \o actual_res_id.v \o "' (Type: " \o actual_res.type \o ", Name: "
        \o actual_res.name
        \o ") found in actual state is not managed by (or tracked in) current IaC state."

\* the DriftInfo of a type mismatch (attribute_drifts keeps its default, [])
TypeMismatchRecord(iac_res, actual_res, iac_res_id) ==
    DriftInfo(MODIFIED, iac_res.type, iac_res.name, iac_res_id, iac_res, actual_res, <<>>,
              StrVal(TypeMismatchMessage(iac_res, actual_res, iac_res_id)))

\* as ModifiedRecord, but attribute_drifts keeps its default
ModifiedRecord_DefaultDrifts(iac_res, actual_res, iac_res_id, attribute_drifts) ==
    DriftInfo(MODIFIED, iac_res.type, iac_res.name, iac_res_id, iac_res, actual_res,
              <<>>, StrVal(ModifiedMessage(iac_res, iac_res_id)))

ModifiedRecord(iac_res, actual_res, iac_res_id, attribute_drifts) ==
    DriftInfo(MODIFIED, iac_res.type, iac_res.name, iac_res_id, iac_res, actual_res,
              attribute_drifts, StrVal(ModifiedMessage(iac_res, iac_res_id)))

MissingRecord(iac_res, iac_res_id) ==
    DriftInfo(MISSING_IN_ACTUAL, iac_res.type, iac_res.name, iac_res_id, iac_res, None,
              <<>>, StrVal(MissingMessage(iac_res, iac_res_id)))

UnmanagedRecord(actual_res, actual_res_id) ==
    DriftInfo(UNMANAGED_IN_ACTUAL, actual_res.type, actual_res.name, actual_res_id, None,
              actual_res, <<>>, StrVal(UnmanagedMessage(actual_res, actual_res_id)))

\* `if attribute_drifts:` and the append under it
AppendIfModified(iac_res, actual_res, iac_res_id, attribute_drifts) ==
    IF attribute_drifts # <<>>
    THEN <<ModifiedRecord(iac_res, actual_res, iac_res_id, attribute_drifts)>>
    ELSE <<>>

\* as IacItemDrift, but a MODIFIED record is appended for every matched pair
IacItemDrift_AlwaysModified(iac_res_id, iac_res, actual_by_id, config) ==
    IF DictHas(actual_by_id, iac_res_id)
    THEN LET actual_res == DictAt(actual_by_id, iac_res_id)
         IN  IF iac_res.type # actual_res.type
             THEN <<TypeMismatchRecord(iac_res, actual_res, iac_res_id)>>
             ELSE <<ModifiedRecord(iac_res, actual_res, iac_res_id,
                        compare_attributes(iac_res.attributes, actual_res.attributes,
                                           iac_res.type, config))>>
    ELSE <<MissingRecord(iac_res, iac_res_id)>>

\* as IacItemDrift, but without the `continue` after the type-mismatch record
IacItemDrift_NoContinue(iac_res_id, iac_res, actual_by_id, config) ==
    IF DictHas(actual_by_id, iac_res_id)
    THEN LET actual_res == DictAt(actual_by_id, iac_res_id)
         IN  (IF iac_res.type # actual_res.type
              THEN <<TypeMismatchRecord(iac_res, actual_res, iac_res_id)>>
              ELSE <<>>)
             \o AppendIfModified(iac_res, actual_res, iac_res_id,
                    compare_attributes(iac_res.attributes, actual_res.attributes,
                                       iac_res.type, config))
    ELSE <<MissingRecord(iac_res, iac_res_id)>>

\* the body of `for iac_res_id, iac_res in iac_by_id.items()`: what one item appends
IacItemDrift(iac_res_id, iac_res, actual_by_id, config) ==
    IF DictHas(actual_by_id, iac_res_id)
    THEN LET actual_res == DictAt(actual_by_id, iac_res_id)
         IN  IF iac_res.type # actual_res.type
             THEN <<TypeMismatchRecord(iac_res, actual_res, iac_res_id)>>
             ELSE AppendIfModified(iac_res, actual_res, iac_res_id,
                      compare_attributes(iac_res.attributes, actual_res.attributes,
                                         iac_res.type, config))
    ELSE <<MissingRecord(iac_res, iac_res_id)>>

RECURSIVE IacLoop(_, _, _)
IacLoop(iac_items, actual_by_id, config) ==
    IF iac_items = <<>> THEN <<>>
    ELSE IacItemDrift(Head(iac_items).key, Head(iac_items).value, actual_by_id, config)
             \o IacLoop(Tail(iac_items), actual_by_id, config)

\* as ActualItemDrift, but without the test against the ids of the desired index
ActualItemDrift_NoProcessedCheck(actual_res_id, actual_res, actual_ids_processed) ==
    <<UnmanagedRecord(actual_res, actual_res_id)>>

\* the body of `for actual_res_id, actual_res in actual_by_id.items()`
ActualItemDrift(actual_res_id, actual_res, actual_ids_processed) ==
    IF actual_res_id \notin actual_ids_processed
    THEN <<UnmanagedRecord(actual_res, actual_res_id)>>
    ELSE <<>>

RECURSIVE ActualLoop(_, _)
ActualLoop(actual_items, actual_ids_processed) ==
    IF actual_items = <<>> THEN <<>>
    ELSE ActualItemDrift(Head(actual_items).key, Head(actual_items).value,
                         actual_ids_processed)
             \o ActualLoop(Tail(actual_items), actual_ids_processed)

\* as compare_states, but returning early on an empty desired list
compare_states_EarlyReturn(iac, actual, config) ==
    LET iac_by_id == IndexById(iac)
        actual_by_id == IndexById(actual)
        actual_ids_processed == {iac_by_id[i].key : i \in 1..Len(iac_by_id)}
    IN  IF iac = <<>> THEN <<>>
        ELSE IacLoop(iac_by_id, actual_by_id, config)
                 \o ActualLoop(actual_by_id, actual_ids_processed)

\* as compare_states, but with the unmanaged pass first
compare_states_UnmanagedFirst(iac, actual, config) ==
    LET iac_by_id == IndexById(iac)
        actual_by_id == IndexById(actual)
        actual_ids_processed == {iac_by_id[i].key : i \in 1..Len(iac_by_id)}
    IN  ActualLoop(actual_by_id, actual_ids_processed)
            \o IacLoop(iac_by_id, actual_by_id, config)

compare_states(iac, actual, config) ==
    LET iac_by_id == IndexById(iac)
        actual_by_id == IndexById(actual)
        actual_ids_processed == {iac_by_id[i].key : i \in 1..Len(iac_by_id)}
    IN  IacLoop(iac_by_id, actual_by_id, config)
            \o ActualLoop(actual_by_id, actual_ids_processed)

(***************************************************************************)
(* Calls of compare_states                                                 *)
(***************************************************************************)
MaxLen == 2     \* longest desired or actual list

Orders(S) ==
    {p \in [1..Cardinality(S) -> S] : \A i, j \in 1..Cardinality(S) : p[i] = p[j] => i = j}

SeqsUpTo(S, n) == UNION {[1..k -> S] : k \in 0..n}

StateAttrsA == [size |-> IntVal(0), tags |-> DictVal([env |-> StrVal("prod")])]

StateAttrsB ==
    [size |-> StrVal("0"), tags |-> DictVal([env |-> StrVal("prod"), extra |-> StrVal("x")])]

\* The resources a list holds: two without a usable id (id None as in
\* test_compare_states_no_ids_in_iac_resources, and the empty string), and for
\* each of two ids a vm with either attribute map and a disk.
Resources(name) ==
    {ParsedResource(id, "vm", name, "mock", None, StateAttrsA) : id \in {None, StrVal("")}}
    \cup {ParsedResource(StrVal(id), ta[1], name, "mock", None, ta[2]) :
            id \in {"i-1", "i-2"},
            ta \in {<<"vm", StateAttrsA>>, <<"vm", StateAttrsB>>, <<"disk", StateAttrsA>>}}

IgnoreConfigs == {None, DictVal([vm |-> <<"size">>])}

Unused == <<"unused">>

\* the state of the command line and of the server while neither runs
NoCli ==
    /\ tf_state_file = None /\ file = Unused /\ eager_annotations = FALSE
    /\ parsed_resources = <<>> /\ exit_code = -1 /\ compared = FALSE

NoStore ==
    /\ CONTEXT_STORE = <<>> /\ request = Unused /\ response = Unused
    /\ in_flight = <<>> /\ served = <<>>

InitStates ==
    /\ op = "compare_states"
    /\ pc = "ready"
    /\ hash_order \in Orders({"size", "tags"})
    /\ iac_resources \in SeqsUpTo(Resources("web_iac"), MaxLen)
    /\ actual_resources \in SeqsUpTo(Resources("web_actual"), MaxLen)
    /\ ignored_attributes_config \in IgnoreConfigs
    /\ drift_results = <<>>
    /\ iac_attrs = Unused /\ actual_attrs = Unused /\ resource_type = ""
    /\ drifts = <<>>
    /\ drift_info = Unused /\ iac_tool = "" /\ suggestions = <<>>
    /\ raised = "none"
    /\ default_ignored_attributes = DEFAULT_IGNORED_ATTRIBUTES
    /\ NoCli /\ NoStore

CompareStates ==
    /\ op = "compare_states"
    /\ pc = "ready"
    /\ drift_results' =
           compare_states(iac_resources, actual_resources, ignored_attributes_config)
    /\ pc' = "done"
    /\ UNCHANGED <<op, hash_order, iac_resources, actual_resources,
                   ignored_attributes_config, iac_attrs, actual_attrs, resource_type,
                   drifts, drift_info, iac_tool, suggestions, raised,
                   default_ignored_attributes, cli_vars, store_vars>>

(***************************************************************************)
(* Calls of compare_attributes                                             *)
(***************************************************************************)
\* the maps with the keys of some subset of the domain of f, each key of
\* the subset with one of the values f allows for it
PartialMaps(f) ==
    UNION {[K -> UNION {f[k] : k \in K}] : K \in SUBSET DOMAIN f}

MapsOver(f) == {m \in PartialMaps(f) : \A k \in DOMAIN m : m[k] \in f[k]}

\* the tags: env with a name, the empty string or null; extra
TagMaps ==
    MapsOver([env |-> {StrVal("a"), StrVal(""), None}, extra |-> {StrVal("x")}])

AttrMaps ==
    MapsOver([arn   |-> {None, IntVal(0), StrVal("0")},
              tags  |-> {None} \cup {DictVal(m) : m \in TagMaps},
              _meta |-> {StrVal("m")}])

AttrIgnoreConfigs ==
    {None, DictVal(<<>>), DictVal([vm |-> <<"arn">>]), DictVal([vm |-> <<"tags.env">>]),
     DictVal([aws_instance |-> <<"tags">>])}

InitAttrs ==
    /\ op = "compare_attributes"
    /\ pc = "ready"
    /\ hash_order \in Orders({"arn", "tags", "_meta"})
    /\ iac_attrs \in AttrMaps
    /\ actual_attrs \in AttrMaps
    /\ resource_type \in {"aws_instance", "vm"}
    /\ ignored_attributes_config \in AttrIgnoreConfigs
    /\ drifts = <<>>
    /\ iac_resources = <<>> /\ actual_resources = <<>> /\ drift_results = <<>>
    /\ drift_info = Unused /\ iac_tool = "" /\ suggestions = <<>>
    /\ raised = "none"
    /\ default_ignored_attributes = DEFAULT_IGNORED_ATTRIBUTES
    /\ NoCli /\ NoStore

\* attribute maps with an internal attribute, as the computed attributes
\* that a Terraform state keeps under names with a leading underscore
InternalAttrMaps ==
    MapsOver([_meta |-> {None, StrVal("m"), StrVal("n")},
              size  |-> {IntVal(0), IntVal(1), BoolVal(FALSE)}])

InternalIgnoreConfigs ==
    {None, DictVal(<<>>), DictVal([vm |-> <<"size">>]), DictVal([vm |-> <<"_meta">>])}

InitInternalAttrs ==
    /\ op = "compare_attributes"
    /\ pc = "ready"
    /\ hash_order \in Orders({"_meta", "size"})
    /\ iac_attrs \in InternalAttrMaps
    /\ actual_attrs \in InternalAttrMaps
    /\ resource_type \in {"aws_instance", "vm"}
    /\ ignored_attributes_config \in InternalIgnoreConfigs
    /\ drifts = <<>>
    /\ iac_resources = <<>> /\ actual_resources = <<>> /\ drift_results = <<>>
    /\ drift_info = Unused /\ iac_tool = "" /\ suggestions = <<>>
    /\ raised = "none"
    /\ default_ignored_attributes = DEFAULT_IGNORED_ATTRIBUTES
    /\ NoCli /\ NoStore

\* as CompareAttributes, but the call leaves an entry for the type in the
\* module's table, as DEFAULT_IGNORED_ATTRIBUTES.setdefault(resource_type, [])
\* in place of .get(resource_type, []) would
CompareAttributes_SetDefault ==
    /\ op = "compare_attributes"
    /\ pc = "ready"
    /\ drifts' = compare_attributes(iac_attrs, actual_attrs, resource_type,
                                    ignored_attributes_config)
    /\ default_ignored_attributes' =
           IF Truthy(ignored_attributes_config) THEN default_ignored_attributes
           ELSE DictVal([rt \in DOMAIN default_ignored_attributes.v \cup {resource_type} |->
                            GetOr(default_ignored_attributes.v, rt, <<>>)])
    /\ pc' = "done"
    /\ UNCHANGED <<op, hash_order, iac_resources, actual_resources,
                   ignored_attributes_config, drift_results, iac_attrs, actual_attrs,
                   resource_type, drift_info, iac_tool, suggestions, raised,
                   cli_vars, store_vars>>

CompareAttributes ==
    /\ op = "compare_attributes"
    /\ pc = "ready"
    /\ drifts' = compare_attributes(iac_attrs, actual_attrs, resource_type,
                                    ignored_attributes_config)
    /\ pc' = "done"
    /\ UNCHANGED <<op, hash_order, iac_resources, actual_resources,
                   ignored_attributes_config, drift_results, iac_attrs, actual_attrs,
                   resource_type, drift_info, iac_tool, suggestions, raised,
                   default_ignored_attributes, cli_vars, store_vars>>

(***************************************************************************)
(* remediation.py: suggest_remediation                                     *)
(***************************************************************************)
Digit(n) == SubSeq("0123456789", n + 1, n + 1)

RECURSIVE IntStr(_)
IntStr(n) ==
    IF n < 0 THEN "-" \o IntStr(-n)
    ELSE IF n < 10 THEN Digit(n)
    ELSE IntStr(n \div 10) \o Digit(n % 10)

\* repr(x) and str(x), which an f-string applies to a formatted value
RECURSIVE PyRepr(_)
RECURSIVE ItemsRepr(_, _)
ItemsRepr(keys, d) ==
    IF keys = <<>> THEN ""
    ELSE "'" \o Head(keys) \o "': " \o PyRepr(d[Head(keys)])
             \o (IF Len(keys) > 1 THEN ", " ELSE "") \o ItemsRepr(Tail(keys), d)

PyRepr(x) ==
    CASE x.t = "none" -> "None"
      [] x.t = "str"  -> "'" \o x.v \o "'"
      [] x.t = "int"  -> IntStr(x.v)
      [] x.t = "bool" -> IF x.v THEN "True" ELSE "False"
      [] x.t = "dict" -> "{" \o ItemsRepr(DictKeys(x.v), x.v) \o "}"

PyStr(x) == IF x.t = "str" THEN x.v ELSE PyRepr(x)

Returned(lines) == [raised |-> "none", suggestions |-> lines]

Raised(exception) == [raised |-> exception, suggestions |-> <<>>]

\* as res_identifier, but without the id of the desired resource
res_identifier_IdOnly(di) ==
    (di.resource_type \o "." \o di.resource_name)
    \o (IF Truthy(di.resource_id) THEN " (ID: " \o PyStr(di.resource_id) \o ")" ELSE "")

\* res_identifier, built before the dispatch on the drift type
res_identifier(di) ==
    (di.resource_type \o "." \o di.resource_name)
    \o (IF Truthy(di.resource_id)
        THEN " (ID: " \o PyStr(di.resource_id) \o ")"
        ELSE IF di.iac_resource # None /\ Truthy(di.iac_resource.id)
             THEN " (Expected IaC ID: " \o PyStr(di.iac_resource.id) \o ")"
             ELSE "")

\* as MissingSuggestions, but the module note is given whatever the tool is
MissingSuggestions_ModuleNoteForAnyTool(di, tool) ==
    <<"Resource " \o res_identifier(di)
          \o " is defined in IaC but MISSING in the actual state.">>
    \o (IF tool = "terraform"
        THEN <<"  - Suggestion: Run 'terraform apply' to create the resource.">>
        ELSE <<"  - Suggestion: Use your IaC tool to apply the configuration and create the resource.">>)
    \o (IF di.iac_resource # None /\ Truthy(di.iac_resource.module)
        THEN <<"    (Resource is in module: " \o PyStr(di.iac_resource.module) \o ")">>
        ELSE <<>>)

MissingSuggestions(di, tool) ==
    <<"Resource " \o res_identifier(di)
          \o " is defined in IaC but MISSING in the actual state.">>
    \o (IF tool = "terraform"
        THEN <<"  - Suggestion: Run 'terraform apply' to create the resource.">>
             \o (IF di.iac_resource # None /\ Truthy(di.iac_resource.module)
                 THEN <<"    (Resource is in module: " \o PyStr(di.iac_resource.module)
                            \o ")">>
                 ELSE <<>>)
        ELSE <<"  - Suggestion: Use your IaC tool to apply the configuration and create the resource.">>)

UnmanagedHeader(di) ==
    <<"Resource " \o res_identifier(di)
          \o " exists in the actual state but is UNMANAGED by IaC.",
      "  - This resource may have been created manually or outside of the current IaC configuration.">>

\* the terraform branch reads drift_info.actual_resource.type: an
\* AttributeError when actual_resource is None
UnmanagedSuggestions(di, tool) ==
    IF tool = "terraform"
    THEN IF di.actual_resource = None
         THEN Raised("AttributeError")
         ELSE Returned(UnmanagedHeader(di) \o
                  <<"  - Suggestion 1: Import the resource into Terraform state using 'terraform import "
                        \o di.actual_resource.type \o "." \o di.actual_resource.name \o " "
                        \o PyStr(di.resource_id)
                        \o "' (adjust logical name as needed) and then define it in your Terraform code.",
                    "  - Suggestion 2: If the resource is not needed or should be managed by a different IaC setup, consider removing it manually from the cloud environment (with caution).",
                    "  - Suggestion 3: If it should be ignored by this drift detection, update ignore configurations.">>)
    ELSE Returned(UnmanagedHeader(di) \o
             <<"  - Suggestion: Consider importing it into your IaC, defining it in code, or removing it manually if not needed.">>)

\* as ValStr, but with `if value` in place of `if value is not None`
ValStr_IfTruthy(value) ==
    IF Truthy(value) THEN "'" \o PyStr(value) \o "'" ELSE "not set (None)"

\* iac_val_str / actual_val_str
ValStr(value) == IF value # None THEN "'" \o PyStr(value) \o "'" ELSE "not set (None)"

RECURSIVE AttributeLines(_)
AttributeLines(attribute_drifts) ==
    IF attribute_drifts = <<>> THEN <<>>
    ELSE LET attr_drift == Head(attribute_drifts)
         IN  <<"  - Attribute '" \o attr_drift.attribute_name \o "':",
               "    - IaC expects: " \o ValStr(attr_drift.iac_value),
               "    - Actual is:   " \o ValStr(attr_drift.actual_value)>>
             \o AttributeLines(Tail(attribute_drifts))

ModifiedClosing(tool) ==
    IF tool = "terraform"
    THEN <<"  - Suggestion: Review the differences. If IaC is the source of truth, run 'terraform apply' to align the actual state.",
           "    If changes in actual state are intentional and desired, update your Terraform code to match, then plan and apply.">>
    ELSE <<"  - Suggestion: Review differences. Align actual state by applying IaC, or update IaC to match actual state if changes are desired.">>

\* as ModifiedSuggestions, but with nothing to say when no attribute differs
ModifiedSuggestions_NothingWithoutDrifts(di, tool) ==
    IF di.attribute_drifts = <<>> THEN <<>>
    ELSE <<"Resource " \o res_identifier(di)
               \o " is MODIFIED. Differences found between IaC and actual state:">>
         \o AttributeLines(di.attribute_drifts) \o ModifiedClosing(tool)

ModifiedSuggestions(di, tool) ==
    <<"Resource " \o res_identifier(di)
          \o " is MODIFIED. Differences found between IaC and actual state:">>
    \o AttributeLines(di.attribute_drifts) \o ModifiedClosing(tool)

\* as UnknownSuggestions, but without the resource
UnknownSuggestions_TypeOnly(di) == <<"Unknown drift type '" \o di.drift_type \o "'.">>

UnknownSuggestions(di) ==
    <<"Unknown drift type '" \o di.drift_type \o "' for resource " \o res_identifier(di)
          \o ".">>

suggest_remediation(di, tool) ==
    CASE di.drift_type = MISSING_IN_ACTUAL   -> Returned(MissingSuggestions(di, tool))
      [] di.drift_type = UNMANAGED_IN_ACTUAL -> UnmanagedSuggestions(di, tool)
      [] di.drift_type = MODIFIED            -> Returned(ModifiedSuggestions(di, tool))
      [] OTHER                               -> Returned(UnknownSuggestions(di))

(***************************************************************************)
(* Calls of suggest_remediation                                            *)
(***************************************************************************)
MaxDrifts == 2      \* longest attribute_drifts list of a DriftInfo

SomeAttributeDrifts ==
    {AttributeDrift("size", IntVal(0), None),
     AttributeDrift("tags.env", None, StrVal("prod")),
     AttributeDrift("tags", DictVal([env |-> StrVal("prod")]), StrVal("")),
     AttributeDrift("enabled", BoolVal(FALSE), IntVal(1))}

\* the type of a record that does not come from DriftType, as in
\* test_suggest_remediation_unknown_drift_type
UnknownDriftType == "very_unknown_drift"

DriftInfos ==
    {DriftInfo(dt, "aws_s3_bucket", "bucket1", rid, ires, ares, ads, None) :
        dt \in DriftType \cup {UnknownDriftType},
        rid \in {None, StrVal(""), StrVal("b1")},
        ires \in {None} \cup
                 {ParsedResource(id, "aws_s3_bucket", "bucket1", "aws", module, <<>>) :
                      id \in {None, StrVal(""), StrVal("b7")},
                      module \in {None, StrVal(""), StrVal("module.m")}},
        ares \in {None} \cup
                 {ParsedResource(StrVal("b1"), "aws_s3_bucket", name, "aws", None, <<>>) :
                      name \in {"bucket1", "bucket1_live"}},
        ads \in SeqsUpTo(SomeAttributeDrifts, MaxDrifts)}

InitRemediation ==
    /\ op = "suggest_remediation"
    /\ pc = "ready"
    /\ drift_info \in DriftInfos
    /\ iac_tool \in {"terraform", "pulumi"}
    /\ suggestions = <<>>
    /\ raised = "none"
    /\ hash_order = <<>>
    /\ iac_resources = <<>> /\ actual_resources = <<>> /\ drift_results = <<>>
    /\ ignored_attributes_config = None
    /\ iac_attrs = Unused /\ actual_attrs = Unused /\ resource_type = ""
    /\ drifts = <<>>
    /\ default_ignored_attributes = DEFAULT_IGNORED_ATTRIBUTES
    /\ NoCli /\ NoStore

SuggestRemediation ==
    /\ op = "suggest_remediation"
    /\ pc = "ready"
    /\ LET result == suggest_remediation(drift_info, iac_tool)
       IN  /\ suggestions' = result.suggestions
           /\ raised' = result.raised
    /\ pc' = "done"
    /\ UNCHANGED <<op, hash_order, iac_resources, actual_resources,
                   ignored_attributes_config, drift_results, iac_attrs, actual_attrs,
                   resource_type, drifts, drift_info, iac_tool,
                   default_ignored_attributes, cli_vars, store_vars>>

Init == InitStates \/ InitAttrs \/ InitRemediation

Next == CompareStates \/ CompareAttributes \/ SuggestRemediation

Spec == Init /\ [][Next]_vars

(***************************************************************************)
(* The calls of compare_attributes alone, those on maps with internal      *)
(* attributes included, and the calls of compare_states alone              *)
(***************************************************************************)
InitAttributes == InitAttrs \/ InitInternalAttrs

NextAttributes == CompareAttributes

SpecAttributes == InitAttributes /\ [][NextAttributes]_vars

NextStates == CompareStates

SpecStates == InitStates /\ [][NextStates]_vars

(***************************************************************************)
(* Several calls in one process, one after another: every call finds the   *)
(* module's table as the calls before it left it.                          *)
(***************************************************************************)
MaxCallLen == 1     \* longest list that a call of compare_states is given here

CallResources(name) == {r \in Resources(name) : r.id = StrVal("i-1")}

CallAttrMaps == {m \in AttrMaps : DOMAIN m \subseteq {"arn"}}

CallDriftInfos ==
    {di \in DriftInfos :
        /\ di.resource_id = StrVal("b1") /\ di.iac_resource = None
        /\ di.actual_resource # None /\ di.actual_resource.name = "bucket1"
        /\ di.attribute_drifts = <<>>}

\* the process after the import of the modules, before the first call
InitCalls ==
    /\ op = "" /\ pc = "done"
    /\ hash_order = <<>>
    /\ iac_resources = <<>> /\ actual_resources = <<>> /\ drift_results = <<>>
    /\ ignored_attributes_config = None
    /\ iac_attrs = Unused /\ actual_attrs = Unused /\ resource_type = ""
    /\ drifts = <<>>
    /\ drift_info = Unused /\ iac_tool = "" /\ suggestions = <<>>
    /\ raised = "none"
    /\ default_ignored_attributes = DEFAULT_IGNORED_ATTRIBUTES
    /\ NoCli /\ NoStore

\* the caller makes its next call, with new arguments
Invoke ==
    /\ pc = "done"
    /\ pc' = "ready"
    /\ \/ /\ op' = "compare_states"
          /\ hash_order' \in Orders({"size", "tags"})
          /\ iac_resources' \in SeqsUpTo(CallResources("web_iac"), MaxCallLen)
          /\ actual_resources' \in SeqsUpTo(CallResources("web_actual"), MaxCallLen)
          /\ ignored_attributes_config' \in IgnoreConfigs
          /\ iac_attrs' = Unused /\ actual_attrs' = Unused /\ resource_type' = ""
          /\ drift_info' = Unused /\ iac_tool' = ""
       \/ /\ op' = "compare_attributes"
          /\ hash_order' = <<"arn", "tags", "_meta">>
          /\ iac_attrs' \in CallAttrMaps
          /\ actual_attrs' \in CallAttrMaps
          /\ resource_type' \in {"aws_instance", "vm"}
          /\ ignored_attributes_config' \in {None, DictVal([vm |-> <<"arn">>])}
          /\ iac_resources' = <<>> /\ actual_resources' = <<>>
          /\ drift_info' = Unused /\ iac_tool' = ""
       \/ /\ op' = "suggest_remediation"
          /\ hash_order' = <<>>
          /\ drift_info' \in CallDriftInfos
          /\ iac_tool' \in {"terraform", "pulumi"}
          /\ iac_resources' = <<>> /\ actual_resources' = <<>>
          /\ ignored_attributes_config' = None
          /\ iac_attrs' = Unused /\ actual_attrs' = Unused /\ resource_type' = ""
    /\ drift_results' = <<>> /\ drifts' = <<>> /\ suggestions' = <<>>
    /\ raised' = "none"
    /\ UNCHANGED <<default_ignored_attributes, cli_vars, store_vars>>

NextCalls == Invoke \/ CompareStates \/ CompareAttributes \/ SuggestRemediation

SpecCalls == InitCalls /\ [][NextCalls]_vars

(***************************************************************************)
(* compare_states, then suggest_remediation on a record that it returned,  *)
(* as main of cli.py does for each detected drift                          *)
(***************************************************************************)
\* cli.py: the choices of --iac-type, which main hands on as iac_tool
IacTypeChoices == {"terraform"}

\* the loop of main over the detected drifts, for one of them:
\* suggest_remediation(drift_info, iac_tool=args.iac_type)
SuggestForDetectedDrift ==
    /\ op = "compare_states"
    /\ pc = "done"
    /\ \E i \in 1..Len(drift_results), tool \in IacTypeChoices :
           LET result == suggest_remediation(drift_results[i], tool)
           IN  /\ drift_info' = drift_results[i]
               /\ iac_tool' = tool
               /\ suggestions' = result.suggestions
               /\ raised' = result.raised
    /\ pc' = "suggested"
    /\ UNCHANGED <<op, hash_order, iac_resources, actual_resources,
                   ignored_attributes_config, drift_results, iac_attrs, actual_attrs,
                   resource_type, drifts, default_ignored_attributes, cli_vars, store_vars>>

InitPipeline ==
    /\ op = "compare_states"
    /\ pc = "ready"
    /\ hash_order \in Orders({"size", "tags"})
    /\ iac_resources \in SeqsUpTo(Resources("web_iac"), MaxCallLen)
    /\ actual_resources \in SeqsUpTo(Resources("web_actual"), MaxCallLen)
    /\ ignored_attributes_config \in IgnoreConfigs
    /\ drift_results = <<>>
    /\ iac_attrs = Unused /\ actual_attrs = Unused /\ resource_type = ""
    /\ drifts = <<>>
    /\ drift_info = Unused /\ iac_tool = "" /\ suggestions = <<>>
    /\ raised = "none"
    /\ default_ignored_attributes = DEFAULT_IGNORED_ATTRIBUTES
    /\ NoCli /\ NoStore

NextPipeline == CompareStates \/ SuggestForDetectedDrift

SpecPipeline == InitPipeline /\ [][NextPipeline]_vars

(***************************************************************************)
(* parsers/terraform_parser.py: parse_terraform_state_file                 *)
(***************************************************************************)
\* a dict without keys
EmptyMap == [k \in {} |-> None]

\* the positions at which sub occurs in s
Occurrences(s, sub) ==
    {i \in 1..(Len(s) - Len(sub) + 1) : SubSeq(s, i, i + Len(sub) - 1) = sub}

\* s.split(sep)[-1]: what follows the last occurrence of sep
SplitLast(s, sep) ==
    LET at == Occurrences(s, sep)
    IN  IF at = {} THEN s
        ELSE SubSeq(s, (CHOOSE i \in at : \A j \in at : j <= i) + Len(sep), Len(s))

\* s.split(sep)[0]: what precedes the first occurrence of sep
SplitFirst(s, sep) ==
    LET at == Occurrences(s, sep)
    IN  IF at = {} THEN s
        ELSE SubSeq(s, 1, (CHOOSE i \in at : \A j \in at : i <= j) - 1)

\* provider_name_short, from the provider string of the resource
provider_name_short(res_provider_full) ==
    IF Contains(res_provider_full, "hashicorp/")
    THEN SplitFirst(SplitLast(res_provider_full, "hashicorp/"), "\"]")
    ELSE IF Contains(res_provider_full, "providers/")
         THEN SplitFirst(SplitLast(res_provider_full, "providers/"), "\"]")
         ELSE "unknown"

\* what the path names: no file, something that open() or read() fails on,
\* a file that is not JSON, or a file with the JSON value data
NoFile == [kind |-> "missing", data |-> None]
UnreadableFile == [kind |-> "unreadable", data |-> None]
InvalidJsonFile == [kind |-> "invalid_json", data |-> None]
JsonFile(data) == [kind |-> "json", data |-> data]

\* os.path.exists(path)
Exists(f) == f.kind # "missing"

ParseReturned(resources) == [raised |-> "none", parsed_resources |-> resources]

ParseRaised(exception) == [raised |-> exception, parsed_resources |-> <<>>]

\* the body of the loop over res_data.get("instances", []): nothing for an
\* instance without id, type or name, else the ParsedResource of the instance
InstanceResources(res_data, instance_data) ==
    LET instance_attributes == GetOr(instance_data.v, "attributes", DictVal(EmptyMap))
        instance_id == GetOr(instance_attributes.v, "id", None)
        res_type == GetOr(res_data.v, "type", None)
        res_name == GetOr(res_data.v, "name", None)
    IN  IF ~Truthy(instance_id) \/ ~Truthy(res_type) \/ ~Truthy(res_name) THEN <<>>
        ELSE <<ParsedResource(StrVal(PyStr(instance_id)), res_type.v, res_name.v,
                   provider_name_short(GetOr(res_data.v, "provider", StrVal("")).v),
                   GetOr(res_data.v, "module", None), instance_attributes.v)>>

RECURSIVE InstanceLoop(_, _)
InstanceLoop(res_data, instances) ==
    IF instances = <<>> THEN <<>>
    ELSE InstanceResources(res_data, Head(instances))
             \o InstanceLoop(res_data, Tail(instances))

\* the body of the loop over resources_in_state: data sources are skipped
ResourceResources(res_data) ==
    IF PyNe(GetOr(res_data.v, "mode", StrVal("managed")), StrVal("managed")) THEN <<>>
    ELSE InstanceLoop(res_data, GetOr(res_data.v, "instances", ListVal(<<>>)).v)

RECURSIVE ResourceLoop(_)
ResourceLoop(resources_in_state) ==
    IF resources_in_state = <<>> THEN <<>>
    ELSE ResourceResources(Head(resources_in_state))
             \o ResourceLoop(Tail(resources_in_state))

\* Each except clause prints to sys.stderr, and the module does not import
\* sys: the handler raises NameError in place of returning [].  A JSON value
\* that is not an object has no get().
parse_terraform_state_file(f) ==
    CASE f.kind = "missing"      -> ParseRaised("NameError")
      [] f.kind = "invalid_json" -> ParseRaised("NameError")
      [] f.kind = "unreadable"   -> ParseRaised("NameError")
      [] f.kind = "json" /\ ~isinstance_dict(f.data) -> ParseRaised("AttributeError")
      [] OTHER ->
             ParseReturned(ResourceLoop(
                 GetOr(f.data.v, "resources", ListVal(<<>>)).v))

(***************************************************************************)
(* Calls of parse_terraform_state_file                                     *)
(***************************************************************************)
MaxResources == 2   \* longest "resources" array of a state file
MaxInstances == 1   \* longest "instances" array of a resource

\* a key that a JSON object does not have
Absent == [t |-> "absent"]

\* the JSON object with the keys of f that are not Absent
JsonObject(f) == DictVal([k \in {k \in DOMAIN f : f[k] # Absent} |-> f[k]])

HashicorpAws == "provider[\"registry.terraform.io/hashicorp/aws\"]"

CommunityAcme == "provider[\"registry.example.com/providers/acme\"]"

\* instances with an id (a string or a number), without one, with an empty
\* one, and without attributes
ParserInstances ==
    {DictVal([attributes |-> DictVal([id |-> StrVal("i-1"), size |-> IntVal(0)])]),
     DictVal([attributes |-> DictVal([id |-> IntVal(7)])]),
     DictVal([attributes |-> DictVal([ami |-> StrVal("ami-123")])]),
     DictVal([attributes |-> DictVal([id |-> StrVal("")])]),
     DictVal([schema_version |-> IntVal(1)])}

ParserResources ==
    {JsonObject([mode |-> mode, type |-> type, name |-> StrVal("web"),
                 provider |-> pm[1], module |-> pm[2], instances |-> instances]) :
        mode \in {Absent, StrVal("managed"), StrVal("data")},
        type \in {Absent, StrVal("vm")},
        pm \in {<<StrVal(HashicorpAws), Absent>>, <<StrVal(CommunityAcme), StrVal("module.m")>>,
                <<Absent, Absent>>},
        instances \in {Absent} \cup {ListVal(is) : is \in SeqsUpTo(ParserInstances, MaxInstances)}}

\* state files: an object with a "resources" array, an object without one,
\* and a JSON array
ParserFiles ==
    {NoFile, UnreadableFile, InvalidJsonFile, JsonFile(ListVal(<<>>)),
     JsonFile(DictVal([version |-> IntVal(4)]))}
    \cup {JsonFile(DictVal([version |-> IntVal(4), resources |-> ListVal(rs)])) :
             rs \in SeqsUpTo(ParserResources, MaxResources)}

NoEngine ==
    /\ hash_order = <<>>
    /\ iac_resources = <<>> /\ actual_resources = <<>> /\ drift_results = <<>>
    /\ ignored_attributes_config = None
    /\ iac_attrs = Unused /\ actual_attrs = Unused /\ resource_type = ""
    /\ drifts = <<>>
    /\ drift_info = Unused /\ iac_tool = "" /\ suggestions = <<>>
    /\ default_ignored_attributes = DEFAULT_IGNORED_ATTRIBUTES

InitParse ==
    /\ op = "parse_terraform_state_file"
    /\ pc = "ready"
    /\ tf_state_file = StrVal("test.tfstate")
    /\ file \in ParserFiles
    /\ parsed_resources = <<>>
    /\ raised = "none"
    /\ eager_annotations = FALSE /\ exit_code = -1 /\ compared = FALSE
    /\ NoEngine /\ NoStore

ParseTerraformStateFile ==
    /\ op = "parse_terraform_state_file"
    /\ pc = "ready"
    /\ LET result == parse_terraform_state_file(file)
       IN  /\ parsed_resources' = result.parsed_resources
           /\ raised' = result.raised
    /\ pc' = "done"
    /\ UNCHANGED <<op, hash_order, iac_resources, actual_resources,
                   ignored_attributes_config, drift_results, iac_attrs, actual_attrs,
                   resource_type, drifts, drift_info, iac_tool, suggestions,
                   default_ignored_attributes, tf_state_file, file, eager_annotations,
                   exit_code, compared, store_vars>>

(***************************************************************************)
(* connectors/mock_connector.py and cli.py: one run of the command line    *)
(***************************************************************************)
\* _get_default_mock_data, as fetch_actual_state returns it
DefaultMockData ==
    <<ParsedResource(StrVal("i-12345abcdef"), "aws_instance", "actual-example-ec2", "aws",
          None,
          [id |-> StrVal("i-12345abcdef"), ami |-> StrVal("ami-0c55b31ad29f52962"),
           instance_type |-> StrVal("t2.micro"),
           tags |-> DictVal([Name |-> StrVal("example-instance"),
                             Environment |-> StrVal("prod_actual")])]),
      ParsedResource(StrVal("my-unique-bucket-name"), "aws_s3_bucket", "actual-s3-bucket",
          "aws", None,
          [id |-> StrVal("my-unique-bucket-name"), bucket |-> StrVal("my-unique-bucket-name"),
           acl |-> StrVal("public-read"),
           versioning |-> DictVal([enabled |-> BoolVal(TRUE)])]),
      ParsedResource(StrVal("vol-09876fedcba"), "aws_ebs_volume", "unmanaged-data-volume",
          "aws", None,
          [id |-> StrVal("vol-09876fedcba"), size |-> IntVal(100), type |-> StrVal("gp3"),
           availability_zone |-> StrVal("us-east-1a")])>>

fetch_actual_state == DefaultMockData

CliResult(code, exception, did_compare, desired, actual, detected) ==
    [exit_code |-> code, raised |-> exception, compared |-> did_compare,
     desired_state_resources |-> desired, actual_state_resources |-> actual,
     detected_drifts |-> detected]

\* the report loop evaluates DriftType.MODIFIED for a record with a message,
\* and cli.py does not import DriftType
ReportRaises(detected_drifts) ==
    \E i \in 1..Len(detected_drifts) : Truthy(detected_drifts[i].message)

\* python -m ...cli: the imports at the head of cli.py, then main().  Where
\* annotations are evaluated at the definition, the import of mock_connector
\* raises NameError (Optional is not imported there) and the interpreter
\* ends with status 1, as it does for every exception that leaves main.
main(path, f, eager) ==
    IF eager THEN CliResult(1, "NameError", FALSE, <<>>, <<>>, <<>>)
    ELSE IF ~Truthy(path) THEN CliResult(2, "none", FALSE, <<>>, <<>>, <<>>)
    ELSE LET parsed == parse_terraform_state_file(f)
             desired == parsed.parsed_resources
         IN  IF parsed.raised # "none"
             THEN CliResult(1, parsed.raised, FALSE, <<>>, <<>>, <<>>)
             ELSE IF ~Exists(f) THEN CliResult(2, "none", FALSE, desired, <<>>, <<>>)
             ELSE LET actual == fetch_actual_state
                      detected == compare_states(desired, actual, None)
                  IN  IF detected = <<>>
                      THEN CliResult(0, "none", TRUE, desired, actual, detected)
                      ELSE IF ReportRaises(detected)
                           THEN CliResult(1, "NameError", TRUE, desired, actual, detected)
                           ELSE CliResult(1, "none", TRUE, desired, actual, detected)

\* the resources of SAMPLE_TFSTATE_CONTENT, and the resources that agree
\* with the mock data
StateResource(type, name, attributes) ==
    DictVal([mode |-> StrVal("managed"), type |-> StrVal(type), name |-> StrVal(name),
             provider |-> StrVal(HashicorpAws),
             instances |-> ListVal(<<DictVal([schema_version |-> IntVal(1),
                                             attributes |-> DictVal(attributes)])>>)])

SampleInstances ==
    {<<>>,
     <<StateResource("aws_instance", "example_ec2",
           [id |-> StrVal("i-12345abcdef"), ami |-> StrVal("ami-0c55b31ad29f52962"),
            instance_type |-> StrVal("t2.micro"),
            tags |-> DictVal([Name |-> StrVal("example-instance")])])>>,
     <<StateResource("aws_instance", "example_ec2", DefaultMockData[1].attributes)>>}

SampleDatabases ==
    {<<>>,
     <<StateResource("aws_db_instance", "my_db",
           [id |-> StrVal("db-abcdef1234567890"), engine |-> StrVal("postgres"),
            instance_class |-> StrVal("db.t2.small")])>>}

SampleBuckets ==
    {<<>>,
     <<StateResource("aws_s3_bucket", "my_bucket_iac",
           [id |-> StrVal("my-unique-bucket-name"), bucket |-> StrVal("my-unique-bucket-name"),
            acl |-> StrVal("private")])>>,
     <<StateResource("aws_s3_bucket", "my_bucket_iac", DefaultMockData[2].attributes)>>}

SampleVolumes ==
    {<<>>, <<StateResource("aws_ebs_volume", "data", DefaultMockData[3].attributes)>>}

CliFiles ==
    {NoFile, UnreadableFile, InvalidJsonFile, JsonFile(ListVal(<<>>)),
     JsonFile(DictVal([version |-> IntVal(4)]))}
    \cup {JsonFile(DictVal([version |-> IntVal(4),
                            resources |-> ListVal(i \o d \o b \o v)])) :
             i \in SampleInstances, d \in SampleDatabases, b \in SampleBuckets,
             v \in SampleVolumes}

\* the attribute names of the sample state and of the mock data
CliKeyOrder ==
    <<"id", "ami", "instance_type", "tags", "bucket", "acl", "versioning", "size", "type",
      "availability_zone", "engine", "instance_class">>

Reverse(xs) == [i \in 1..Len(xs) |-> xs[Len(xs) + 1 - i]]

InitCli ==
    /\ op = "cli"
    /\ pc = "ready"
    /\ tf_state_file \in {None, StrVal(""), StrVal("test.tfstate")}
    /\ file \in CliFiles
    /\ eager_annotations \in BOOLEAN
    /\ hash_order \in {CliKeyOrder, Reverse(CliKeyOrder)}
    /\ exit_code = -1 /\ compared = FALSE
    /\ parsed_resources = <<>>
    /\ raised = "none"
    /\ iac_resources = <<>> /\ actual_resources = <<>> /\ drift_results = <<>>
    /\ ignored_attributes_config = None
    /\ iac_attrs = Unused /\ actual_attrs = Unused /\ resource_type = ""
    /\ drifts = <<>>
    /\ drift_info = Unused /\ iac_tool = "" /\ suggestions = <<>>
    /\ default_ignored_attributes = DEFAULT_IGNORED_ATTRIBUTES
    /\ NoStore

CliMain ==
    /\ op = "cli"
    /\ pc = "ready"
    /\ LET result == main(tf_state_file, file, eager_annotations)
       IN  /\ exit_code' = result.exit_code
           /\ raised' = result.raised
           /\ compared' = result.compared
           /\ iac_resources' = result.desired_state_resources
           /\ actual_resources' = result.actual_state_resources
           /\ drift_results' = result.detected_drifts
    /\ pc' = "done"
    /\ UNCHANGED <<op, hash_order, ignored_attributes_config, iac_attrs, actual_attrs,
                   resource_type, drifts, drift_info, iac_tool, suggestions,
                   default_ignored_attributes, tf_state_file, file, eager_annotations,
                   parsed_resources, store_vars>>

InitCliSpec == InitParse \/ InitCli

NextCli == ParseTerraformStateFile \/ CliMain

SpecCli == InitCliSpec /\ [][NextCli]_vars

(***************************************************************************)
(* mcp_server/main.py: the context store and its four request handlers.    *)
(* A handler has no await, so a request is handled in one step.            *)
(***************************************************************************)
ContextIds == {"c1", "c2", "c3"}

\* a request: the handler it is routed to, the id in the path or the body,
\* and whether the body is one the request model accepts
Request(method, context_id, body_valid) ==
    [method |-> method, context_id |-> context_id, body_valid |-> body_valid]

Response(status_code, body) == [status_code |-> status_code, body |-> body]

Handled(store, resp) == [store |-> store, response |-> resp]

HTTPException(status_code, detail) ==
    Response(status_code, DictVal([detail |-> StrVal(detail)]))

\* the answer to a body that CreateContextRequest or UpdateContextRequest
\* does not validate
Unprocessable == Response(422, DictVal([detail |-> StrVal("validation error")]))

\* CONTEXT_STORE[context_id] = {"data": {}}
NewContext == DictVal([data |-> DictVal(EmptyMap)])

\* as create_context, but without the test for a context that exists
create_context_Overwrites(store, context_id) ==
    Handled([c \in DOMAIN store \cup {context_id} |->
                 IF c = context_id THEN NewContext ELSE store[c]],
            Response(201, DictVal([message |-> StrVal("Context created successfully"),
                                   context_id |-> StrVal(context_id)])))

create_context(store, context_id) ==
    IF context_id \in DOMAIN store
    THEN Handled(store, HTTPException(409, "Context already exists"))
    ELSE Handled([c \in DOMAIN store \cup {context_id} |->
                      IF c = context_id THEN NewContext ELSE store[c]],
                 Response(201, DictVal([message |-> StrVal("Context created successfully"),
                                        context_id |-> StrVal(context_id)])))

get_context(store, context_id) ==
    IF context_id \notin DOMAIN store
    THEN Handled(store, HTTPException(404, "Context not found"))
    ELSE Handled(store,
                 Response(200, DictVal([context_id |-> StrVal(context_id),
                                        data |-> GetOr(store[context_id].v, "data",
                                                       DictVal(EmptyMap))])))

\* as update_context, with the assignment that main.py:63 has in a comment
update_context_StoresData(store, context_id) ==
    IF context_id \notin DOMAIN store
    THEN Handled(store, HTTPException(404, "Context not found"))
    ELSE Handled([store EXCEPT ![context_id] =
                      DictVal([data |-> DictVal([note |-> StrVal("new")])])],
                 Response(200, DictVal([message |-> StrVal("Context updated successfully (placeholder)"),
                                        context_id |-> StrVal(context_id)])))

update_context(store, context_id) ==
    IF context_id \notin DOMAIN store
    THEN Handled(store, HTTPException(404, "Context not found"))
    ELSE Handled(store,
                 Response(200, DictVal([message |-> StrVal("Context updated successfully (placeholder)"),
                                        context_id |-> StrVal(context_id)])))

delete_context(store, context_id) ==
    IF context_id \notin DOMAIN store
    THEN Handled(store, HTTPException(404, "Context not found"))
    ELSE Handled([c \in DOMAIN store \ {context_id} |-> store[c]], Response(204, None))

InitStore ==
    /\ op = "mcp_server"
    /\ pc = "serving"
    /\ CONTEXT_STORE = EmptyMap
    /\ request = Unused
    /\ response = Unused
    /\ in_flight = <<>>
    /\ served = <<>>
    /\ raised = "none"
    /\ NoEngine /\ NoCli

Serve(req, handled) ==
    /\ op = "mcp_server"
    /\ request' = req
    /\ CONTEXT_STORE' = handled.store
    /\ response' = handled.response
    /\ UNCHANGED <<op, pc, hash_order, iac_resources, actual_resources,
                   ignored_attributes_config, drift_results, iac_attrs, actual_attrs,
                   resource_type, drifts, drift_info, iac_tool, suggestions, raised,
                   default_ignored_attributes, cli_vars, in_flight, served>>

\* POST /v1/contexts
CreateContext ==
    \E c \in ContextIds, body_valid \in BOOLEAN :
        Serve(Request("create", c, body_valid),
              IF body_valid THEN create_context(CONTEXT_STORE, c)
              ELSE Handled(CONTEXT_STORE, Unprocessable))

\* GET /v1/contexts/{context_id}
GetContext ==
    \E c \in ContextIds :
        Serve(Request("get", c, TRUE), get_context(CONTEXT_STORE, c))

\* PUT /v1/contexts/{context_id}
UpdateContext ==
    \E c \in ContextIds, body_valid \in BOOLEAN :
        Serve(Request("update", c, body_valid),
              IF body_valid THEN update_context(CONTEXT_STORE, c)
              ELSE Handled(CONTEXT_STORE, Unprocessable))

\* DELETE /v1/contexts/{context_id}
DeleteContext ==
    \E c \in ContextIds :
        Serve(Request("delete", c, TRUE), delete_context(CONTEXT_STORE, c))

NextStore == CreateContext \/ GetContext \/ UpdateContext \/ DeleteContext

SpecStore == InitStore /\ [][NextStore]_vars

(***************************************************************************)
(* mcp_server/main.py under concurrent requests.  uvicorn.run serves the   *)
(* app in one process on one event loop: requests are received in any      *)
(* number before one of them is handled, the handlers are called in any    *)
(* order, and a handler, which has no await, runs from its first line to    *)
(* its return before another handler is called.                            *)
(***************************************************************************)
MaxRequests == 3    \* most requests that are received in one run

\* the requests of the four routes
AllRequests ==
    {Request(m, c, b) : m \in {"create", "update"}, c \in ContextIds, b \in BOOLEAN}
    \cup {Request(m, c, TRUE) : m \in {"get", "delete"}, c \in ContextIds}

\* the requests that are received and not yet handled, each as often as it
\* is in flight
InFlight == {r \in AllRequests : r \in DOMAIN in_flight}

\* the number of requests in flight
RECURSIVE Pending(_)
Pending(S) ==
    IF S = {} THEN 0
    ELSE LET r == CHOOSE x \in S : TRUE IN in_flight[r] + Pending(S \ {r})

\* what the route of the request does to the store and answers
Route(req, store) ==
    CASE req.method = "create" ->
             IF req.body_valid THEN create_context(store, req.context_id)
             ELSE Handled(store, Unprocessable)
      [] req.method = "get" -> get_context(store, req.context_id)
      [] req.method = "update" ->
             IF req.body_valid THEN update_context(store, req.context_id)
             ELSE Handled(store, Unprocessable)
      [] req.method = "delete" -> delete_context(store, req.context_id)

\* the server receives a request while others are in flight
Receive ==
    /\ op = "mcp_server"
    /\ Pending(InFlight) + Len(served) < MaxRequests
    /\ \E req \in AllRequests :
           in_flight' = [r \in InFlight \cup {req} |->
                            IF r = req THEN (IF r \in InFlight THEN in_flight[r] + 1 ELSE 1)
                            ELSE in_flight[r]]
    /\ UNCHANGED <<op, pc, hash_order, iac_resources, actual_resources,
                   ignored_attributes_config, drift_results, iac_attrs, actual_attrs,
                   resource_type, drifts, drift_info, iac_tool, suggestions, raised,
                   default_ignored_attributes, cli_vars, CONTEXT_STORE, request, response,
                   served>>

\* the event loop calls the handler of one of the requests in flight
Handle(method) ==
    /\ op = "mcp_server"
    /\ \E req \in InFlight :
           /\ req.method = method
           /\ LET handled == Route(req, CONTEXT_STORE)
              IN  /\ request' = req
                  /\ CONTEXT_STORE' = handled.store
                  /\ response' = handled.response
                  /\ served' = Append(served, [request |-> req,
                                               response |-> handled.response])
           /\ in_flight' = [r \in (IF in_flight[req] = 1 THEN InFlight \ {req} ELSE InFlight) |->
                                IF r = req THEN in_flight[r] - 1 ELSE in_flight[r]]
    /\ UNCHANGED <<op, pc, hash_order, iac_resources, actual_resources,
                   ignored_attributes_config, drift_results, iac_attrs, actual_attrs,
                   resource_type, drifts, drift_info, iac_tool, suggestions, raised,
                   default_ignored_attributes, cli_vars>>

HandleCreate == Handle("create")

HandleGet == Handle("get")

HandleUpdate == Handle("update")

HandleDelete == Handle("delete")

NextConcurrent ==
    Receive \/ HandleCreate \/ HandleGet \/ HandleUpdate \/ HandleDelete

SpecConcurrent == InitStore /\ [][NextConcurrent]_vars

(***************************************************************************)
(* Properties of compare_states                                            *)
(***************************************************************************)
StatesDone == op = "compare_states" /\ pc = "done"

\* the ids of a list's index: the non-empty ids that occur in the list
IdsOf(resources) == {r.id : r \in {x \in Range(resources) : Truthy(x.id)}}

\* the positions of the returned records that carry the id
RecordsFor(id) == {i \in 1..Len(drift_results) : drift_results[i].resource_id = id}

TypesFor(id) == {drift_results[i].drift_type : i \in RecordsFor(id)}

\* position i holds the last record of the list with its id
IsLastWithId(resources, i) ==
    \A k \in (i + 1)..Len(resources) : resources[k].id # resources[i].id

\* C1 (partition): one MISSING_IN_ACTUAL record for every id only in the desired
\* index, one UNMANAGED_IN_ACTUAL record for every id only in the actual index,
\* one MODIFIED record or none for every id in both, no record for any other
\* id and never two records for one id.
C1_Partition ==
    StatesDone =>
        LET D == IdsOf(iac_resources)
            A == IdsOf(actual_resources)
        IN  /\ \A id \in D \ A :
                   Cardinality(RecordsFor(id)) = 1 /\ TypesFor(id) = {MISSING_IN_ACTUAL}
            /\ \A id \in A \ D :
                   Cardinality(RecordsFor(id)) = 1 /\ TypesFor(id) = {UNMANAGED_IN_ACTUAL}
            /\ \A id \in D \cap A :
                   Cardinality(RecordsFor(id)) <= 1 /\ TypesFor(id) \subseteq {MODIFIED}
            /\ \A i \in 1..Len(drift_results) : drift_results[i].resource_id \in D \cup A

\* a call that met all three outcomes for matched ids and both one-sided cases
C1_Witness ==
    /\ StatesDone
    /\ Len(drift_results) = 2
    /\ \E id \in IdsOf(iac_resources) \cap IdsOf(actual_resources) : RecordsFor(id) # {}
    /\ \E id \in IdsOf(actual_resources) \ IdsOf(iac_resources) : RecordsFor(id) # {}

\* C2 as claimed: a desired and an actual record with the same id, the same type
\* and equal attribute maps give no record for that id, whatever else the
\* lists hold.
C2_AsClaimed ==
    StatesDone =>
        \A i \in 1..Len(iac_resources), j \in 1..Len(actual_resources) :
            ( /\ Truthy(iac_resources[i].id)
              /\ iac_resources[i].id = actual_resources[j].id
              /\ iac_resources[i].type = actual_resources[j].type
              /\ iac_resources[i].attributes = actual_resources[j].attributes )
            => RecordsFor(iac_resources[i].id) = {}

\* C2 (no false positives), amended: a desired and an actual record with the
\* same id, the same type and equal attribute maps, each the last record
\* with that id in its list, give no record for that id, whatever their names
\* and whatever the lists hold under other ids.
C2_NoFalsePositive ==
    StatesDone =>
        \A i \in 1..Len(iac_resources), j \in 1..Len(actual_resources) :
            ( /\ Truthy(iac_resources[i].id)
              /\ iac_resources[i].id = actual_resources[j].id
              /\ iac_resources[i].type = actual_resources[j].type
              /\ iac_resources[i].attributes = actual_resources[j].attributes
              /\ IsLastWithId(iac_resources, i)
              /\ IsLastWithId(actual_resources, j) )
            => RecordsFor(iac_resources[i].id) = {}

\* identical records under different names next to a drifting resource
C2_Witness ==
    /\ StatesDone
    /\ Len(iac_resources) = 2 /\ Len(actual_resources) = 2
    /\ iac_resources[1].id = actual_resources[1].id
    /\ Truthy(iac_resources[1].id)
    /\ iac_resources[1].type = actual_resources[1].type
    /\ iac_resources[1].attributes = actual_resources[1].attributes
    /\ iac_resources[1].name # actual_resources[1].name
    /\ iac_resources[2].id # iac_resources[1].id
    /\ actual_resources[2].id # actual_resources[1].id
    /\ RecordsFor(iac_resources[1].id) = {}
    /\ drift_results # <<>>

\* C5 (totality): the call returns a list and raises nothing; two empty lists
\* give the empty list, an empty desired list gives one UNMANAGED_IN_ACTUAL
\* record per actual id and nothing else, an empty actual list gives one
\* MISSING_IN_ACTUAL record per desired id and nothing else.
C5_Totality ==
    StatesDone =>
        /\ raised = "none"
        /\ (iac_resources = <<>> /\ actual_resources = <<>>) => drift_results = <<>>
        /\ iac_resources = <<>> =>
               /\ Len(drift_results) = Cardinality(IdsOf(actual_resources))
               /\ \A i \in 1..Len(drift_results) :
                      drift_results[i].drift_type = UNMANAGED_IN_ACTUAL
        /\ actual_resources = <<>> =>
               /\ Len(drift_results) = Cardinality(IdsOf(iac_resources))
               /\ \A i \in 1..Len(drift_results) :
                      drift_results[i].drift_type = MISSING_IN_ACTUAL

\* an empty desired list against two actual resources
C5_Witness ==
    /\ StatesDone
    /\ iac_resources = <<>>
    /\ Len(drift_results) = 2
    /\ raised = "none"

\* C8 (records without an id): no returned record carries an empty or absent
\* id or a resource that has one, and an actual record with an id that no
\* desired record carries is reported as UNMANAGED_IN_ACTUAL, also when the
\* desired list holds records without an id; nothing is raised.
C8_NoIdExcluded ==
    StatesDone =>
        /\ raised = "none"
        /\ \A i \in 1..Len(drift_results) :
               LET d == drift_results[i]
               IN  /\ Truthy(d.resource_id)
                   /\ d.iac_resource # None => Truthy(d.iac_resource.id)
                   /\ d.actual_resource # None => Truthy(d.actual_resource.id)
        /\ \A j \in 1..Len(actual_resources) :
               ( /\ Truthy(actual_resources[j].id)
                 /\ \A i \in 1..Len(iac_resources) :
                        iac_resources[i].id # actual_resources[j].id )
               => /\ Cardinality(RecordsFor(actual_resources[j].id)) = 1
                  /\ TypesFor(actual_resources[j].id) = {UNMANAGED_IN_ACTUAL}
        /\ Len(drift_results) <=
               Cardinality(IdsOf(iac_resources) \cup IdsOf(actual_resources))

\* a desired record without an id against an actual record with one
C8_Witness ==
    /\ StatesDone
    /\ Len(iac_resources) = 1 /\ ~Truthy(iac_resources[1].id)
    /\ Len(actual_resources) = 2
    /\ ~Truthy(actual_resources[1].id) /\ Truthy(actual_resources[2].id)
    /\ Len(drift_results) = 1
    /\ drift_results[1].drift_type = UNMANAGED_IN_ACTUAL

\* the record of a type mismatch on id: MODIFIED, the message states the
\* mismatch, no attribute drifts
IsTypeMismatchRecord(d) ==
    /\ d.drift_type = MODIFIED
    /\ Contains(d.message.v, "Type mismatch")
    /\ d.attribute_drifts = <<>>

\* C9 as claimed: a desired and an actual record that share an id and differ
\* in type give exactly one record for that id, the type-mismatch record.
C9_AsClaimed ==
    StatesDone =>
        \A i \in 1..Len(iac_resources), j \in 1..Len(actual_resources) :
            ( /\ Truthy(iac_resources[i].id)
              /\ iac_resources[i].id = actual_resources[j].id
              /\ iac_resources[i].type # actual_resources[j].type )
            => /\ Cardinality(RecordsFor(iac_resources[i].id)) = 1
               /\ \A k \in RecordsFor(iac_resources[i].id) :
                      IsTypeMismatchRecord(drift_results[k])

\* C9 (type mismatch), amended: a desired and an actual record that share an
\* id and differ in type, each the last record with that id in its list, give
\* exactly one record for that id: a MODIFIED record whose message states the
\* type mismatch and whose attribute_drifts is empty whatever the attribute
\* maps hold; no MISSING_IN_ACTUAL or UNMANAGED_IN_ACTUAL record is added.
C9_TypeMismatch ==
    StatesDone =>
        \A i \in 1..Len(iac_resources), j \in 1..Len(actual_resources) :
            ( /\ Truthy(iac_resources[i].id)
              /\ iac_resources[i].id = actual_resources[j].id
              /\ iac_resources[i].type # actual_resources[j].type
              /\ IsLastWithId(iac_resources, i)
              /\ IsLastWithId(actual_resources, j) )
            => /\ Cardinality(RecordsFor(iac_resources[i].id)) = 1
               /\ \A k \in RecordsFor(iac_resources[i].id) :
                      /\ IsTypeMismatchRecord(drift_results[k])
                      /\ drift_results[k].iac_resource = iac_resources[i]
                      /\ drift_results[k].actual_resource = actual_resources[j]

\* a vm and a disk under one id whose attribute maps differ as well
C9_Witness ==
    /\ StatesDone
    /\ Len(drift_results) = 1
    /\ IsTypeMismatchRecord(drift_results[1])
    /\ drift_results[1].iac_resource.type # drift_results[1].actual_resource.type
    /\ drift_results[1].iac_resource.attributes
           # drift_results[1].actual_resource.attributes

\* C10 (ordering): no UNMANAGED_IN_ACTUAL record comes before a
\* MISSING_IN_ACTUAL or MODIFIED record in the returned list.
C10_Ordering ==
    StatesDone =>
        \A i, j \in 1..Len(drift_results) :
            ( /\ drift_results[i].drift_type = UNMANAGED_IN_ACTUAL
              /\ drift_results[j].drift_type \in {MISSING_IN_ACTUAL, MODIFIED} )
            => j < i

\* both kinds of record in one result, while the actual list starts with the
\* unmanaged resource
C10_Witness ==
    /\ StatesDone
    /\ Len(drift_results) = 2
    /\ drift_results[1].drift_type \in {MISSING_IN_ACTUAL, MODIFIED}
    /\ drift_results[2].drift_type = UNMANAGED_IN_ACTUAL
    /\ Len(actual_resources) = 2
    /\ actual_resources[1].id = drift_results[2].resource_id

(***************************************************************************)
(* Properties of compare_attributes                                        *)
(***************************************************************************)
AttrsDone == op = "compare_attributes" /\ pc = "done"

DriftNames(ds) == {ds[i].attribute_name : i \in 1..Len(ds)}

\* the tag keys that only the actual side holds
ActualOnlyTags(iattrs, aattrs) ==
    LET it == Get(iattrs, "tags")
        at == Get(aattrs, "tags")
    IN  IF isinstance_dict(at)
        THEN DOMAIN at.v \ (IF isinstance_dict(it) THEN DOMAIN it.v ELSE {})
        ELSE {}

\* the actual attributes without the tag keys that only the actual side holds
WithoutActualOnlyTags(iattrs, aattrs) ==
    IF ActualOnlyTags(iattrs, aattrs) = {} THEN aattrs
    ELSE [aattrs EXCEPT !["tags"] =
             DictVal([k \in DOMAIN aattrs["tags"].v \ ActualOnlyTags(iattrs, aattrs) |->
                         aattrs["tags"].v[k]])]

ListedFor(rtype, config) ==
    IF isinstance_dict(config) THEN Range(GetOr(config.v, rtype, <<>>)) ELSE {}

\* the matched records of a result that carry attribute drifts
AttributeDriftsOfResult ==
    {drift_results[i] : i \in {k \in 1..Len(drift_results) :
                                  drift_results[k].attribute_drifts # <<>>}}

\* C4 as claimed: no drift of the output is named by a name that the ignore
\* config lists for the type.
C4_AsClaimed ==
    /\ AttrsDone =>
           DriftNames(drifts) \cap ListedFor(resource_type, ignored_attributes_config) = {}
    /\ StatesDone =>
           \A d \in AttributeDriftsOfResult :
               DriftNames(d.attribute_drifts)
                   \cap ListedFor(d.resource_type, ignored_attributes_config) = {}

\* the drift is the tags.<k> drift of a key k of the desired tags map
IsPerTagDrift(d, iattrs, aattrs) ==
    /\ isinstance_dict(Get(iattrs, "tags"))
    /\ isinstance_dict(Get(aattrs, "tags"))
    /\ \E k \in DOMAIN iattrs["tags"].v :
           d = AttributeDrift("tags." \o k, iattrs["tags"].v[k], Get(aattrs["tags"].v, k))

\* what the ignore rule guarantees of the drifts ds of a pair of attribute maps
IgnoreRuleHolds(ds, iattrs, aattrs, rtype, config) ==
    \A i \in 1..Len(ds) :
        ds[i].attribute_name \in ListedFor(rtype, config)
        => /\ IsPerTagDrift(ds[i], iattrs, aattrs)
           /\ "tags" \notin ListedFor(rtype, config)

\* C4 (ignore rule), amended: no drift is emitted for an attribute key that
\* the ignore config lists for the type, however different the two values;
\* a listed name appears in the output only as the name tags.<k> of a per-tag
\* drift, which is not matched against the list, and only when tags itself
\* is not listed.
C4_IgnoreRule ==
    /\ AttrsDone =>
           /\ IgnoreRuleHolds(drifts, iac_attrs, actual_attrs, resource_type,
                              ignored_attributes_config)
           /\ \A k \in (DOMAIN iac_attrs \cup DOMAIN actual_attrs)
                          \cap ListedFor(resource_type, ignored_attributes_config) :
                  \A i \in 1..Len(drifts) :
                      /\ drifts[i].attribute_name # k
                      /\ ~startswith(drifts[i].attribute_name, k \o ".")
    /\ StatesDone =>
           \A d \in AttributeDriftsOfResult :
               IgnoreRuleHolds(d.attribute_drifts, d.iac_resource.attributes,
                               d.actual_resource.attributes, d.resource_type,
                               ignored_attributes_config)

\* a listed attribute with different values on the two sides, next to a drift
C4_Witness ==
    /\ AttrsDone
    /\ "arn" \in ListedFor(resource_type, ignored_attributes_config)
    /\ "arn" \in DOMAIN iac_attrs /\ "arn" \in DOMAIN actual_attrs
    /\ iac_attrs["arn"] # actual_attrs["arn"]
    /\ drifts # <<>>

(***************************************************************************)
(* Properties of suggest_remediation                                       *)
(***************************************************************************)
RemediationDone == op = "suggest_remediation" /\ pc = "done"

\* C6: suggest_remediation raises nothing, whatever the DriftInfo holds and
\* whatever the tool.
C6_NeverRaises == RemediationDone => raised = "none"

\* the record names a known drift type and carries the resource that this
\* type is about
WellFormed(di) ==
    /\ di.drift_type \in DriftType
    /\ di.drift_type = MISSING_IN_ACTUAL => di.iac_resource # None
    /\ di.drift_type = UNMANAGED_IN_ACTUAL => di.actual_resource # None

\* C7 (remediation non-emptiness): for a well-formed DriftInfo of any of the
\* three drift types and any tool, the call returns at least one line and
\* the first line names the resource as <resource_type>.<resource_name>.
C7_NonEmpty ==
    (RemediationDone /\ WellFormed(drift_info)) =>
        /\ raised = "none"
        /\ Len(suggestions) >= 1
        /\ Contains(suggestions[1],
                    drift_info.resource_type \o "." \o drift_info.resource_name)

\* a MODIFIED record without attribute drifts, as a type mismatch gives it
C7_Witness ==
    /\ RemediationDone
    /\ WellFormed(drift_info)
    /\ drift_info.drift_type = MODIFIED
    /\ drift_info.attribute_drifts = <<>>
    /\ Len(suggestions) >= 2
    /\ Contains(suggestions[1], "aws_s3_bucket.bucket1 (ID: b1)")

\* a call of suggest_remediation has ended: a call on a record that was drawn
\* from DriftInfos, or the call of the command line on a record that
\* compare_states returned
PipelineDone == op = "compare_states" /\ pc = "suggested"

Suggested == RemediationDone \/ PipelineDone

ResourceName(di) == di.resource_type \o "." \o di.resource_name

EndsWith(s, suffix) ==
    Len(s) >= Len(suffix) /\ SubSeq(s, Len(s) - Len(suffix) + 1, Len(s)) = suffix

\* C11 (as claimed): for a desired resource without an actual counterpart, the
\* suggestions made for the MISSING_IN_ACTUAL record that compare_states
\* returned contain "Expected IaC ID: <id>" with the id of the desired resource.
C11_ExpectedIacId ==
    (PipelineDone /\ drift_info.drift_type = MISSING_IN_ACTUAL) =>
        /\ raised = "none"
        /\ \E i \in 1..Len(suggestions) :
               Contains(suggestions[i],
                        "Expected IaC ID: " \o PyStr(drift_info.iac_resource.id))

\* C12: the first line that suggest_remediation returns names the resource as
\* <resource_type>.<resource_name>; the name is followed by " (ID: <resource_id>)"
\* when the record has a non-empty resource_id, otherwise by
\* " (Expected IaC ID: <id>)" when the desired resource of the record has a
\* non-empty id, and otherwise by no parenthesis at all.
C12_ResourceIdentity ==
    (Suggested /\ raised = "none") =>
        /\ suggestions # <<>>
        /\ LET di == drift_info
               line == suggestions[1]
           IN  CASE Truthy(di.resource_id) ->
                        /\ Contains(line, ResourceName(di) \o " (ID: "
                                              \o PyStr(di.resource_id) \o ")")
                        /\ ~Contains(line, "Expected IaC ID")
                 [] ~Truthy(di.resource_id) /\ di.iac_resource # None
                        /\ Truthy(di.iac_resource.id) ->
                        /\ Contains(line, ResourceName(di) \o " (Expected IaC ID: "
                                              \o PyStr(di.iac_resource.id) \o ")")
                        /\ ~Contains(line, "(ID: ")
                 [] OTHER ->
                        /\ Contains(line, ResourceName(di))
                        /\ ~Contains(line, ResourceName(di) \o " (")
                        /\ ~Contains(line, "ID: ")

\* a record without a usable resource_id whose desired resource has an id is
\* named with the expected id
C12_Witness ==
    /\ RemediationDone /\ raised = "none"
    /\ drift_info.resource_id = StrVal("")
    /\ drift_info.iac_resource # None
    /\ drift_info.iac_resource.id = StrVal("b7")
    /\ Contains(suggestions[1], "aws_s3_bucket.bucket1 (Expected IaC ID: b7)")

\* the resource fields of the record are those of its actual resource, as
\* compare_states fills them in an UNMANAGED_IN_ACTUAL record
RecordNamesItsActual(di) ==
    di.actual_resource # None =>
        /\ di.resource_type = di.actual_resource.type
        /\ di.resource_name = di.actual_resource.name

\* C13 (as claimed): for an UNMANAGED_IN_ACTUAL record, with the tool
\* "terraform" suggest_remediation returns the header, a note and three
\* alternatives, the first of which contains
\* "terraform import <type>.<name> <id>" of the record; with another tool it
\* returns the header, the note and one generic suggestion, and no line
\* contains "terraform import".
C13_UnmanagedSuggestions ==
    (Suggested /\ drift_info.drift_type = UNMANAGED_IN_ACTUAL
         /\ RecordNamesItsActual(drift_info)) =>
        /\ raised = "none"
        /\ Len(suggestions) = (IF iac_tool = "terraform" THEN 5 ELSE 3)
        /\ Contains(suggestions[1], "UNMANAGED")
        /\ IF iac_tool = "terraform"
           THEN /\ Contains(suggestions[3],
                            "terraform import " \o ResourceName(drift_info) \o " "
                                \o PyStr(drift_info.resource_id))
                /\ Contains(suggestions[3], "Suggestion 1")
                /\ Contains(suggestions[4], "Suggestion 2")
                /\ Contains(suggestions[5], "Suggestion 3")
           ELSE /\ Contains(suggestions[3], "Suggestion:")
                /\ \A i \in 1..Len(suggestions) :
                       ~Contains(suggestions[i], "terraform import")

HasModule(di) == di.iac_resource # None /\ Truthy(di.iac_resource.module)

\* C14: for a MISSING_IN_ACTUAL record the first line says that the resource
\* is defined but missing; with the tool "terraform" the second line suggests
\* "terraform apply" and there is a third line, which names the module, exactly
\* when the desired resource of the record has a non-empty module; with
\* another tool there is exactly one more line, a generic suggestion to apply,
\* and no line about a module.
C14_MissingSuggestions ==
    (Suggested /\ drift_info.drift_type = MISSING_IN_ACTUAL) =>
        /\ raised = "none"
        /\ Len(suggestions) >= 2
        /\ Contains(suggestions[1], "is defined in IaC but MISSING")
        /\ IF iac_tool = "terraform"
           THEN /\ Contains(suggestions[2], "terraform apply")
                /\ Len(suggestions) = (IF HasModule(drift_info) THEN 3 ELSE 2)
                /\ HasModule(drift_info) =>
                       Contains(suggestions[3],
                                "module: " \o PyStr(drift_info.iac_resource.module))
           ELSE /\ Len(suggestions) = 2
                /\ Contains(suggestions[2], "Use your IaC tool to apply")
                /\ ~Contains(suggestions[2], "terraform")
                /\ \A i \in 1..Len(suggestions) : ~Contains(suggestions[i], "module")

\* the module note of terraform for a desired resource that is in a module
C14_Witness ==
    /\ RemediationDone
    /\ drift_info.drift_type = MISSING_IN_ACTUAL
    /\ HasModule(drift_info)
    /\ iac_tool = "terraform"
    /\ Len(suggestions) = 3
    /\ Contains(suggestions[3], "module: module.m")

\* the text of a value in a line of the MODIFIED report, as the claim has it
Rendered(value) ==
    IF value = None THEN "not set (None)" ELSE "'" \o PyStr(value) \o "'"

\* C15: for a MODIFIED record with n attribute drifts the lines are the
\* header, then for each AttributeDrift, in order, three lines (the attribute
\* name, "IaC expects: <value>", "Actual is: <value>"), where a null value
\* reads "not set (None)" and any other value, 0 and False included, is
\* quoted, then the closing suggestion of the tool (two lines that mention
\* "terraform apply" for terraform, one line for another tool).
C15_ModifiedSuggestions ==
    (Suggested /\ drift_info.drift_type = MODIFIED) =>
        LET ads == drift_info.attribute_drifts
            n == Len(ads)
        IN  /\ raised = "none"
            /\ Len(suggestions) = 1 + 3 * n + (IF iac_tool = "terraform" THEN 2 ELSE 1)
            /\ Contains(suggestions[1], ResourceName(drift_info))
            /\ Contains(suggestions[1], "is MODIFIED")
            /\ \A k \in 1..n :
                   /\ Contains(suggestions[3 * k - 1],
                               "Attribute '" \o ads[k].attribute_name \o "'")
                   /\ Contains(suggestions[3 * k], "IaC expects: ")
                   /\ EndsWith(suggestions[3 * k], ": " \o Rendered(ads[k].iac_value))
                   /\ Contains(suggestions[3 * k + 1], "Actual is: ")
                   /\ EndsWith(suggestions[3 * k + 1], " " \o Rendered(ads[k].actual_value))
            /\ Contains(suggestions[3 * n + 2], "Suggestion: ")
            /\ Contains(suggestions[3 * n + 2], "terraform apply") <=> iac_tool = "terraform"

\* two drifts are reported in order, with a null and a False among the values
C15_Witness ==
    /\ RemediationDone
    /\ drift_info.drift_type = MODIFIED
    /\ Len(drift_info.attribute_drifts) = 2
    /\ drift_info.attribute_drifts[1].attribute_name = "size"
    /\ drift_info.attribute_drifts[2].attribute_name = "enabled"
    /\ EndsWith(suggestions[3], "IaC expects: '0'")
    /\ EndsWith(suggestions[4], "not set (None)")
    /\ EndsWith(suggestions[6], "IaC expects: 'False'")
    /\ Len(suggestions) = 8

ReturnsAsAlone ==
    /\ default_ignored_attributes = DEFAULT_IGNORED_ATTRIBUTES
    /\ op = "compare_states" =>
           drift_results' =
               compare_states(iac_resources, actual_resources, ignored_attributes_config)
    /\ op = "compare_attributes" =>
           drifts' = compare_attributes(iac_attrs, actual_attrs, resource_type,
                                        ignored_attributes_config)
    /\ op = "suggest_remediation" =>
           /\ suggestions' = suggest_remediation(drift_info, iac_tool).suggestions
           /\ raised' = suggest_remediation(drift_info, iac_tool).raised

CliDone == op = "cli" /\ pc = "done"

\* C18 (as claimed): a run of the command line ends with status 0 exactly
\* when compare_states returned an empty list, with status 1 when it returned
\* a list that is not empty, and with status 2, without a call of
\* compare_states, when --tf-state-file is not given or names a file that
\* does not exist.
C18_ExitCodes ==
    CliDone =>
        /\ exit_code \in {0, 1, 2}
        /\ exit_code = 0 <=> (compared /\ drift_results = <<>>)
        /\ (compared /\ drift_results # <<>>) => exit_code = 1
        /\ (~Truthy(tf_state_file) \/ ~Exists(file)) => (exit_code = 2 /\ ~compared)

ParseDone == op = "parse_terraform_state_file" /\ pc = "done"

\* the resources of the state file that the parser is to keep
ManagedResources(f) ==
    IF f.kind = "json" /\ isinstance_dict(f.data) /\ "resources" \in DOMAIN f.data.v
    THEN {r \in Range(f.data.v["resources"].v) :
             GetOr(r.v, "mode", StrVal("managed")) = StrVal("managed")}
    ELSE {}

\* C19 (as claimed): parse_terraform_state_file never raises, returns an
\* empty list for a file that is missing, unreadable or not JSON, and every
\* record it returns has a non-empty id, type and name and the attribute map
\* of an instance of a resource of the file whose mode is "managed".
C19_NeverRaises ==
    ParseDone =>
        /\ raised = "none"
        /\ file.kind # "json" => parsed_resources = <<>>
        /\ \A i \in 1..Len(parsed_resources) :
               LET res == parsed_resources[i]
               IN  /\ Truthy(res.id) /\ res.type # "" /\ res.name # ""
                   /\ \E r \in ManagedResources(file) :
                          /\ GetOr(r.v, "type", None) = StrVal(res.type)
                          /\ GetOr(r.v, "name", None) = StrVal(res.name)
                          /\ \E k \in 1..Len(GetOr(r.v, "instances", ListVal(<<>>)).v) :
                                 LET instance == r.v["instances"].v[k]
                                 IN  /\ "attributes" \in DOMAIN instance.v
                                     /\ instance.v["attributes"].v = res.attributes
                                     /\ "id" \in DOMAIN res.attributes

(***************************************************************************)
(* Properties of the context store                                         *)
(***************************************************************************)
\* the step handles a request for the id c of the given kind
Handles(method, c) ==
    request' = Request(method, c, TRUE)

StoreProtocolStep ==
    \A c \in ContextIds :
        LET present == c \in DOMAIN CONTEXT_STORE
        IN  /\ Handles("create", c) =>
                   IF present
                   THEN response'.status_code = 409
                   ELSE /\ response'.status_code = 201
                        /\ DOMAIN CONTEXT_STORE' = DOMAIN CONTEXT_STORE \cup {c}
                        /\ CONTEXT_STORE'[c] = DictVal([data |-> DictVal(EmptyMap)])
                        /\ \A d \in DOMAIN CONTEXT_STORE : CONTEXT_STORE'[d] = CONTEXT_STORE[d]
                        /\ get_context(CONTEXT_STORE', c).response =
                               Response(200, DictVal([context_id |-> StrVal(c),
                                                      data |-> DictVal(EmptyMap)]))
            /\ (Handles("get", c) \/ Handles("update", c) \/ Handles("delete", c)) =>
                   (~present => response'.status_code = 404)
            /\ (request'.context_id = c /\ response'.status_code >= 400) =>
                   CONTEXT_STORE' = CONTEXT_STORE
            /\ (Handles("get", c) \/ Handles("update", c)) =>
                   CONTEXT_STORE' = CONTEXT_STORE
            /\ (Handles("get", c) /\ present) =>
                   response' = Response(200, DictVal([context_id |-> StrVal(c),
                                                      data |-> DictVal(EmptyMap)]))

\* C20: create_context answers 201 and adds the id with empty data when the
\* id is absent and answers 409 otherwise; get_context, update_context and
\* delete_context answer 404 for an absent id; a request that fails, a get and
\* an update leave CONTEXT_STORE as it was; a get of an id that was created
\* (and not deleted since) answers {context_id: c, data: {}}.
C20_StoreProtocol == [][StoreProtocolStep]_vars

\* a get of a stored context has been answered, while another context is stored
C20_Witness ==
    /\ op = "mcp_server"
    /\ request = Request("get", "c1", TRUE)
    /\ response = Response(200, DictVal([context_id |-> StrVal("c1"),
                                         data |-> DictVal(EmptyMap)]))
    /\ DOMAIN CONTEXT_STORE = {"c1", "c2"}

(***************************************************************************)
(* Further properties of compare_attributes and compare_states             *)
(***************************************************************************)
\* the ignore list when a config that is passed is the only source of it
IgnoreListOfConfigAlone(rtype, config) ==
    IF config # None
    THEN GetOr(config.v, rtype, <<>>)
    ELSE GetOr(default_ignored_attributes.v, rtype, <<>>)

\* C21 (as claimed): when the caller passes an ignore config, an empty map
\* included, the ignore list is the config's list for the type and the
\* default table is not consulted; the default table gives the list only
\* when no config is passed.
C21_IgnoreListResolution ==
    /\ AttrsDone =>
           drifts = KeyLoop(all_keys(iac_attrs, actual_attrs), iac_attrs, actual_attrs,
                        IgnoreListOfConfigAlone(resource_type, ignored_attributes_config))
    /\ StatesDone =>
           \A d \in AttributeDriftsOfResult :
               d.attribute_drifts =
                   KeyLoop(all_keys(d.iac_resource.attributes, d.actual_resource.attributes),
                       d.iac_resource.attributes, d.actual_resource.attributes,
                       IgnoreListOfConfigAlone(d.resource_type, ignored_attributes_config))

\* both sides hold a map under tags and the resolved ignore list lets tags through
TagsCompared(iattrs, aattrs, rtype, config) ==
    /\ isinstance_dict(Get(iattrs, "tags"))
    /\ isinstance_dict(Get(aattrs, "tags"))
    /\ ~IsIgnoredKey("tags", current_ignored_attributes(rtype, config))

\* the positions of the drifts with the name
DriftsNamed(ds, name) == {i \in 1..Len(ds) : ds[i].attribute_name = name}

\* C22 as claimed: with a map under tags on both sides and tags not ignored,
\* every key of the desired tags whose value differs from the actual one or
\* which is missing in the actual tags has exactly one drift named tags.<k>
\* with the desired and the actual value (null if missing), every other key
\* has none, and no drift is named tags.
C22_AsClaimed ==
    (AttrsDone /\ TagsCompared(iac_attrs, actual_attrs, resource_type,
                               ignored_attributes_config))
    => LET it == iac_attrs["tags"].v
           at == actual_attrs["tags"].v
       IN  /\ \A k \in DOMAIN it :
                  IF k \notin DOMAIN at \/ it[k] # at[k]
                  THEN /\ Cardinality(DriftsNamed(drifts, "tags." \o k)) = 1
                       /\ \A i \in DriftsNamed(drifts, "tags." \o k) :
                              drifts[i] = AttributeDrift("tags." \o k, it[k], Get(at, k))
                  ELSE DriftsNamed(drifts, "tags." \o k) = {}
           /\ DriftsNamed(drifts, "tags") = {}

\* C22 (tag comparison), amended: with a map under tags on both sides and
\* tags not ignored, every key k of the desired tags whose value is unequal
\* to the actual tags' value for k, a missing key counting as null, has
\* exactly one drift named tags.<k> with the desired and the actual value
\* (null if missing); every other key of the desired tags, a null tag that is
\* missing in the actual tags included, has none; no drift is named tags, also
\* when no individual tag differs.
C22_TagComparison ==
    (AttrsDone /\ TagsCompared(iac_attrs, actual_attrs, resource_type,
                               ignored_attributes_config))
    => LET it == iac_attrs["tags"].v
           at == actual_attrs["tags"].v
       IN  /\ \A k \in DOMAIN it :
                  IF PyNe(it[k], Get(at, k))
                  THEN /\ Cardinality(DriftsNamed(drifts, "tags." \o k)) = 1
                       /\ \A i \in DriftsNamed(drifts, "tags." \o k) :
                              drifts[i] = AttributeDrift("tags." \o k, it[k], Get(at, k))
                  ELSE DriftsNamed(drifts, "tags." \o k) = {}
           /\ DriftsNamed(drifts, "tags") = {}

\* one desired tag changed and one missing in the actual tags: two per-tag
\* drifts, the second with null for the actual value
C22_Witness ==
    /\ AttrsDone
    /\ TagsCompared(iac_attrs, actual_attrs, resource_type, ignored_attributes_config)
    /\ DOMAIN iac_attrs["tags"].v = {"env", "extra"}
    /\ DOMAIN actual_attrs["tags"].v = {"env"}
    /\ \E i, j \in 1..Len(drifts) :
           /\ drifts[i].attribute_name = "tags.env"
           /\ drifts[i].actual_value # None
           /\ drifts[j] = AttributeDrift("tags.extra", StrVal("x"), None)

\* the keys that the general comparison handles: not skipped by the resolved
\* ignore list or the underscore rule, and not tags with a map on both sides
GenerallyCompared(iattrs, aattrs, rtype, config) ==
    {k \in DOMAIN iattrs \cup DOMAIN aattrs :
        /\ ~IsIgnoredKey(k, current_ignored_attributes(rtype, config))
        /\ ~(k = "tags" /\ isinstance_dict(Get(iattrs, k)) /\ isinstance_dict(Get(aattrs, k)))}

\* C23 (general attribute comparison): every key of the union of the two maps
\* that is not ignored and is not a tags with a map on both sides has exactly
\* one drift when its two values are unequal and none when they are equal;
\* the drift carries the key and both values, null for a side without the
\* key; a string and a number are never equal.
C23_GeneralComparison ==
    AttrsDone =>
        \A k \in GenerallyCompared(iac_attrs, actual_attrs, resource_type,
                                   ignored_attributes_config) :
            LET iac_value == IF k \in DOMAIN iac_attrs THEN iac_attrs[k] ELSE None
                actual_value == IF k \in DOMAIN actual_attrs THEN actual_attrs[k] ELSE None
            IN  /\ IF PyNe(iac_value, actual_value)
                   THEN /\ Cardinality(DriftsNamed(drifts, k)) = 1
                        /\ \A i \in DriftsNamed(drifts, k) :
                               drifts[i] = AttributeDrift(k, iac_value, actual_value)
                   ELSE DriftsNamed(drifts, k) = {}
                /\ ({iac_value.t, actual_value.t} = {"str", "int"}
                        => DriftsNamed(drifts, k) # {})

\* the string "0" against the number 0 is a drift, next to a key that only
\* the actual side holds
C23_Witness ==
    /\ AttrsDone
    /\ "tags" \notin DOMAIN iac_attrs
    /\ \E i, j \in 1..Len(drifts) :
           /\ drifts[i] = AttributeDrift("arn", StrVal("0"), IntVal(0))
           /\ drifts[j] = AttributeDrift("tags", None, DictVal([env |-> StrVal("a")]))

\* the desired side holds a map under tags, the actual side null or nothing
TagsOnlyDesired(iattrs, aattrs) ==
    /\ isinstance_dict(Get(iattrs, "tags"))
    /\ ("tags" \in DOMAIN aattrs => aattrs["tags"] = None)

\* the drifts with a name tags.<k>
PerTagDrifts(ds) == {i \in 1..Len(ds) : startswith(ds[i].attribute_name, "tags.")}

\* C24 as claimed: with a map under tags on the desired side and null or
\* nothing under tags on the actual side, no drift is named tags.
C24_AsClaimed ==
    (AttrsDone /\ TagsOnlyDesired(iac_attrs, actual_attrs))
    => DriftsNamed(drifts, "tags") = {}

\* C24 (tags container mismatch), amended: with a map under tags on the
\* desired side and null or nothing under tags on the actual side, the
\* per-tag comparison is not made and the mismatch is flagged: unless tags is
\* ignored there is exactly one drift named tags, with the desired map and
\* null, and there is no drift named tags.<k>.
C24_ContainerMismatch ==
    (AttrsDone /\ TagsOnlyDesired(iac_attrs, actual_attrs))
    => /\ PerTagDrifts(drifts) = {}
       /\ IF IsIgnoredKey("tags", current_ignored_attributes(resource_type,
                                      ignored_attributes_config))
          THEN DriftsNamed(drifts, "tags") = {}
          ELSE /\ Cardinality(DriftsNamed(drifts, "tags")) = 1
               /\ \A i \in DriftsNamed(drifts, "tags") :
                      drifts[i] = AttributeDrift("tags", iac_attrs["tags"], None)

\* desired tags with one entry against an actual resource whose tags is null
C24_Witness ==
    /\ AttrsDone
    /\ iac_attrs = [tags |-> DictVal([env |-> StrVal("a")])]
    /\ actual_attrs = [tags |-> None]
    /\ drifts = <<AttributeDrift("tags", DictVal([env |-> StrVal("a")]), None)>>

\* C25 (record shape): in every returned list a MISSING_IN_ACTUAL record
\* carries a desired resource of the desired list, no actual resource and no
\* attribute drifts; an UNMANAGED_IN_ACTUAL record carries an actual resource
\* of the actual list, no desired resource and no attribute drifts; a
\* MODIFIED record carries one of each, and unless their types differ (the
\* type-mismatch record) its attribute_drifts is not empty and is what
\* compare_attributes returns for the pair.
C25_RecordShape ==
    StatesDone =>
        \A i \in 1..Len(drift_results) :
            LET d == drift_results[i]
            IN  /\ d.drift_type \in DriftType
                /\ d.drift_type = MISSING_IN_ACTUAL =>
                       /\ d.iac_resource \in Range(iac_resources)
                       /\ d.actual_resource = None
                       /\ d.attribute_drifts = <<>>
                /\ d.drift_type = UNMANAGED_IN_ACTUAL =>
                       /\ d.actual_resource \in Range(actual_resources)
                       /\ d.iac_resource = None
                       /\ d.attribute_drifts = <<>>
                /\ d.drift_type = MODIFIED =>
                       /\ d.iac_resource \in Range(iac_resources)
                       /\ d.actual_resource \in Range(actual_resources)
                       /\ IsTypeMismatchRecord(d) <=> d.iac_resource.type # d.actual_resource.type
                       /\ ~IsTypeMismatchRecord(d) =>
                              /\ d.attribute_drifts # <<>>
                              /\ d.attribute_drifts =
                                     compare_attributes(d.iac_resource.attributes,
                                         d.actual_resource.attributes, d.iac_resource.type,
                                         ignored_attributes_config)

\* a MODIFIED record with two attribute drifts followed by an
\* UNMANAGED_IN_ACTUAL record
C25_Witness ==
    /\ StatesDone
    /\ Len(drift_results) = 2
    /\ drift_results[1].drift_type = MODIFIED
    /\ Len(drift_results[1].attribute_drifts) = 2
    /\ drift_results[2].drift_type = UNMANAGED_IN_ACTUAL
    /\ drift_results[2].iac_resource = None

\* the keys with a leading underscore
Internal(attrs) == {k \in DOMAIN attrs : SubSeq(k, 1, 1) = "_"}

\* the map without its keys with a leading underscore
WithoutInternal(attrs) == [k \in DOMAIN attrs \ Internal(attrs) |-> attrs[k]]

\* C26 (underscore rule): whatever the ignore config and the type, no drift
\* is named by a name with a leading underscore, and the result is the one
\* for the two maps without their keys with a leading underscore, whether
\* such a key is on one side or on both.
C26_UnderscoreRule ==
    AttrsDone =>
        /\ \A i \in 1..Len(drifts) : SubSeq(drifts[i].attribute_name, 1, 1) # "_"
        /\ drifts = compare_attributes(WithoutInternal(iac_attrs),
                        WithoutInternal(actual_attrs), resource_type,
                        ignored_attributes_config)

\* _meta with different values on the two sides, not listed by any ignore
\* list, next to a size that drifted
C26_Witness ==
    /\ AttrsDone
    /\ ignored_attributes_config = DictVal(<<>>)
    /\ iac_attrs = [_meta |-> StrVal("m"), size |-> IntVal(0)]
    /\ actual_attrs = [_meta |-> StrVal("n"), size |-> IntVal(1)]
    /\ drifts = <<AttributeDrift("size", IntVal(0), IntVal(1))>>

\* what compare_attributes returns in a process that iterates the key set
\* in the order h
DriftsUnder(h, iattrs, aattrs, rtype, config) ==
    KeyLoop(SelectSeq(h, LAMBDA k : k \in (DOMAIN iattrs \cup DOMAIN aattrs)),
            iattrs, aattrs, current_ignored_attributes(rtype, config))

\* C27 (as claimed): the returned drifts and their order are a function of the
\* inputs alone: whatever order another invocation on the same inputs
\* iterates the key set in, it returns the list that this one returned.
C27_Determinism ==
    /\ AttrsDone =>
           \A h \in Orders(Range(hash_order)) :
               drifts = DriftsUnder(h, iac_attrs, actual_attrs, resource_type,
                                    ignored_attributes_config)
    /\ StatesDone =>
           \A h \in Orders(Range(hash_order)) :
               \A d \in AttributeDriftsOfResult :
                   d.attribute_drifts =
                       DriftsUnder(h, d.iac_resource.attributes,
                           d.actual_resource.attributes, d.resource_type,
                           ignored_attributes_config)

\* a value that is not null and is false in a condition: 0, False, "", {}
ZeroLike(v) == v # None /\ ~Truthy(v)

\* C28 (null versus zero-value): for a key that is not ignored, a zero-like
\* value on one side with no such key on the other side is reported, with
\* null for the side without the key, and a null on one side with no such
\* key on the other side is not reported; the same holds for the keys of the
\* desired tags that the actual tags lack, when both tags are maps.
C28_NullVersusZero ==
    AttrsDone =>
        LET ignored == current_ignored_attributes(resource_type, ignored_attributes_config)
        IN  /\ \A k \in DOMAIN iac_attrs \ DOMAIN actual_attrs :
                   ~IsIgnoredKey(k, ignored) =>
                       /\ ZeroLike(iac_attrs[k]) =>
                              \E i \in 1..Len(drifts) :
                                  drifts[i] = AttributeDrift(k, iac_attrs[k], None)
                       /\ iac_attrs[k] = None => DriftsNamed(drifts, k) = {}
            /\ \A k \in DOMAIN actual_attrs \ DOMAIN iac_attrs :
                   ~IsIgnoredKey(k, ignored) =>
                       /\ ZeroLike(actual_attrs[k]) =>
                              \E i \in 1..Len(drifts) :
                                  drifts[i] = AttributeDrift(k, None, actual_attrs[k])
                       /\ actual_attrs[k] = None => DriftsNamed(drifts, k) = {}
            /\ TagsCompared(iac_attrs, actual_attrs, resource_type,
                            ignored_attributes_config) =>
                   \A k \in DOMAIN iac_attrs["tags"].v \ DOMAIN actual_attrs["tags"].v :
                       LET v == iac_attrs["tags"].v[k]
                       IN  /\ ZeroLike(v) =>
                                  \E i \in 1..Len(drifts) :
                                      drifts[i] = AttributeDrift("tags." \o k, v, None)
                           /\ v = None => DriftsNamed(drifts, "tags." \o k) = {}

\* 0 and an empty tag that only the desired side holds are reported, the
\* null that only the actual side holds is not
C28_Witness ==
    /\ AttrsDone
    /\ hash_order = <<"arn", "tags", "_meta">>
    /\ iac_attrs = [arn |-> IntVal(0), tags |-> DictVal([env |-> StrVal("")])]
    /\ actual_attrs = [tags |-> DictVal(<<>>)]
    /\ drifts = <<AttributeDrift("arn", IntVal(0), None),
                  AttributeDrift("tags.env", StrVal(""), None)>>

\* the list without the records that a later record of the list shares its
\* id with
RECURSIVE KeepLast(_)
KeepLast(resources) ==
    IF resources = <<>> THEN <<>>
    ELSE IF \E k \in 2..Len(resources) : resources[k].id = resources[1].id
         THEN KeepLast(Tail(resources))
         ELSE <<Head(resources)>> \o KeepLast(Tail(resources))

\* the resource is the last of the list with its id
LastOfItsId(res, resources) ==
    \E i \in 1..Len(resources) : resources[i] = res /\ IsLastWithId(resources, i)

\* C29 (duplicate ids): of the records of a list that share an id only the
\* last one is in the list's index: every returned record carries the last
\* records with its id, the returned records are those of the call on the two
\* lists without their earlier duplicates, and there are at most as many of
\* them as there are distinct non-empty ids in the two lists.
C29_DuplicateIds ==
    StatesDone =>
        LET alone == compare_states(KeepLast(iac_resources), KeepLast(actual_resources),
                                    ignored_attributes_config)
        IN  /\ Range(drift_results) = Range(alone)
            /\ Len(drift_results) = Len(alone)
            /\ Len(drift_results)
                   <= Cardinality(IdsOf(iac_resources) \cup IdsOf(actual_resources))
            /\ \A i \in 1..Len(drift_results) :
                   LET d == drift_results[i]
                   IN  /\ d.iac_resource # None =>
                              LastOfItsId(d.iac_resource, iac_resources)
                       /\ d.actual_resource # None =>
                              LastOfItsId(d.actual_resource, actual_resources)

\* two desired records under one id of which the first equals the actual
\* record and the last does not: one MODIFIED record, about the last
C29_Witness ==
    /\ StatesDone
    /\ Len(iac_resources) = 2 /\ Len(actual_resources) = 1
    /\ iac_resources[1].id = iac_resources[2].id
    /\ iac_resources[1].attributes = actual_resources[1].attributes
    /\ Len(drift_results) = 1
    /\ drift_results[1].drift_type = MODIFIED
    /\ drift_results[1].attribute_drifts # <<>>
    /\ drift_results[1].iac_resource = iac_resources[2]

(***************************************************************************)
(* Properties of the context store under concurrent requests               *)
(***************************************************************************)
\* the creates and deletes of the id that succeeded, in the order in which
\* they were handled
Successes(c) ==
    SelectSeq(served, LAMBDA s : /\ s.request.context_id = c
                                 /\ s.request.method \in {"create", "delete"}
                                 /\ s.response.status_code \in {201, 204})

\* C30 (concurrency): however the requests in flight are interleaved, every
\* create of a valid body answers 201 or 409 and every delete 204 or 404;
\* the successes for one id alternate, a create with 201 first and after it
\* a delete with 204 and a create with 201 in turn, so that of the creates
\* for an absent id handled with no delete among them exactly one answers
\* 201, and of the deletes for a stored id exactly one answers 204; an id is
\* in CONTEXT_STORE exactly when the last of its successes is a create.
C30_AtomicHandlers ==
    op = "mcp_server" =>
        /\ \A i \in 1..Len(served) :
               LET s == served[i]
               IN  /\ (s.request.method = "create" /\ s.request.body_valid) =>
                          s.response.status_code \in {201, 409}
                   /\ s.request.method = "delete" => s.response.status_code \in {204, 404}
        /\ \A c \in ContextIds :
               LET ok == Successes(c)
               IN  /\ \A i \in 1..Len(ok) :
                          IF i % 2 = 1
                          THEN ok[i].request.method = "create" /\ ok[i].response.status_code = 201
                          ELSE ok[i].request.method = "delete" /\ ok[i].response.status_code = 204
                   /\ c \in DOMAIN CONTEXT_STORE <=> Len(ok) % 2 = 1

\* of two creates of c1 one was answered 201 and the other 409, while a
\* delete of c1 is still in flight
C30_Witness ==
    /\ op = "mcp_server"
    /\ Len(served) = 2
    /\ served[1].request = Request("create", "c1", TRUE)
    /\ served[2].request = Request("create", "c1", TRUE)
    /\ served[1].response.status_code = 201
    /\ served[2].response.status_code = 409
    /\ Request("delete", "c1", TRUE) \in InFlight
    /\ "c1" \in DOMAIN CONTEXT_STORE

====
